---- MODULE Spec2Model ----
(***************************************************************************)
(* Terrain ranging and classification of the CanSat firmware.              *)
(*                                                                         *)
(*   scanner : cansat_arduino/terrain_scanner/terrain_scanner.ino          *)
(*             (Arduino Uno, 5 HC-SR04 channels)                           *)
(*   mega    : cansat_arduino/cansat_mega/cansat_mega.ino                  *)
(*             (Arduino Mega, 6 HC-SR04 channels)                          *)
(*                                                                         *)
(* Both sketches run on AVR, where float and double are the same IEEE-754  *)
(* binary32 type.  A float is represented here by its bit pattern read as  *)
(* a sign-magnitude integer: the magnitude is biasedExponent * 2^23 +      *)
(* fraction and the integer is negative for a negative float.  Only zero   *)
(* and normal numbers occur (distances are between 0.017 and 515 cm), and  *)
(* on those the order of the floats is the order of the integers, so the   *)
(* comparisons of the code are integer comparisons.  Arithmetic rounds to  *)
(* nearest, ties to even, as the AVR float library does.                   *)
(***************************************************************************)
EXTENDS Integers, Sequences, FiniteSets, TLC

----------------------------------------------------------------------------
(* binary32 arithmetic *)

Pow2Tab == <<1, 2, 4, 8, 16, 32, 64, 128, 256, 512, 1024, 2048, 4096, 8192,
             16384, 32768, 65536, 131072, 262144, 524288, 1048576, 2097152,
             4194304, 8388608, 16777216, 33554432, 67108864, 134217728,
             268435456, 536870912, 1073741824>>

Pow2(n) == Pow2Tab[n + 1]

Abs(x) == IF x < 0 THEN -x ELSE x

Sgn(x) == IF x < 0 THEN -1 ELSE 1

\* number of bits of n, 1 <= n < 2^31
BitLen(n) ==
  IF n < 65536
  THEN IF n < 256
       THEN IF n < 16
            THEN IF n < 4 THEN (IF n < 2 THEN 1 ELSE 2)
                 ELSE (IF n < 8 THEN 3 ELSE 4)
            ELSE IF n < 64 THEN (IF n < 32 THEN 5 ELSE 6)
                 ELSE (IF n < 128 THEN 7 ELSE 8)
       ELSE IF n < 4096
            THEN IF n < 1024 THEN (IF n < 512 THEN 9 ELSE 10)
                 ELSE (IF n < 2048 THEN 11 ELSE 12)
            ELSE IF n < 16384 THEN (IF n < 8192 THEN 13 ELSE 14)
                 ELSE (IF n < 32768 THEN 15 ELSE 16)
  ELSE IF n < 16777216
       THEN IF n < 1048576
            THEN IF n < 262144 THEN (IF n < 131072 THEN 17 ELSE 18)
                 ELSE (IF n < 524288 THEN 19 ELSE 20)
            ELSE IF n < 4194304 THEN (IF n < 2097152 THEN 21 ELSE 22)
                 ELSE (IF n < 8388608 THEN 23 ELSE 24)
       ELSE IF n < 268435456
            THEN IF n < 67108864 THEN (IF n < 33554432 THEN 25 ELSE 26)
                 ELSE (IF n < 134217728 THEN 27 ELSE 28)
            ELSE IF n < 1073741824 THEN (IF n < 536870912 THEN 29 ELSE 30)
                 ELSE 31

\* unbiased exponent of the 24-bit integer significand: x = F32Man * 2^F32Exp
F32Exp(x) == (Abs(x) \div 8388608) - 150

F32Man(x) == (Abs(x) % 8388608) + 8388608

F32Encode(sign, e, m) == sign * ((e + 150) * 8388608 + (m - 8388608))

\* sticky bit: remember in the lowest bit that non-zero bits were shifted out
Jam(q, lost) == IF lost /\ q % 2 = 0 THEN q + 1 ELSE q

\* the float nearest to sig * 2^e (ties to even), sig < 2^31
F32RoundPack(sign, e, sig) ==
  IF sig = 0 THEN 0
  ELSE LET L == BitLen(sig) IN
       IF L <= 24 THEN F32Encode(sign, e - (24 - L), sig * Pow2(24 - L))
       ELSE LET sh   == L - 24
                kept == sig \div Pow2(sh)
                rem  == sig % Pow2(sh)
                half == Pow2(sh - 1)
                up   == rem > half \/ (rem = half /\ kept % 2 = 1)
                m1   == IF up THEN kept + 1 ELSE kept
            IN IF m1 = 16777216 THEN F32Encode(sign, e + sh + 1, 8388608)
               ELSE F32Encode(sign, e + sh, m1)

F32FromInt(n) == F32RoundPack(Sgn(n), 0, Abs(n))

\* 24 x 24 bit product in two 24-bit limbs, then rounded
F32Mul(a, b) ==
  IF a = 0 \/ b = 0 THEN 0
  ELSE LET ma == F32Man(a)
           mb == F32Man(b)
           a1 == ma \div 4096
           a0 == ma % 4096
           b1 == mb \div 4096
           b0 == mb % 4096
           mid == a1 * b0 + a0 * b1
           loSum == (mid % 4096) * 4096 + a0 * b0
           hi == a1 * b1 + (mid \div 4096) + (loSum \div 16777216)
           lo == loSum % 16777216
           sig == Jam(hi * 64 + (lo \div 262144), lo % 262144 # 0)
       IN F32RoundPack(Sgn(a) * Sgn(b), F32Exp(a) + F32Exp(b) + 18, sig)

F32Add(a, b) ==
  IF a = 0 THEN b
  ELSE IF b = 0 THEN a
  ELSE LET x == IF Abs(a) >= Abs(b) THEN a ELSE b
           y == IF Abs(a) >= Abs(b) THEN b ELSE a
           d == F32Exp(x) - F32Exp(y)
           X == F32Man(x) * 32
           Y == IF d >= 30 THEN 1
                ELSE Jam((F32Man(y) * 32) \div Pow2(d),
                         (F32Man(y) * 32) % Pow2(d) # 0)
           sig == IF Sgn(x) = Sgn(y) THEN X + Y ELSE X - Y
       IN F32RoundPack(Sgn(x), F32Exp(x) - 5, sig)

F32Sub(a, b) == F32Add(a, -b)

\* a / (float)n for a small positive integer n
F32DivInt(a, n) ==
  IF a = 0 THEN 0
  ELSE F32RoundPack(Sgn(a), F32Exp(a) - 6,
                    Jam((F32Man(a) * 64) \div n, (F32Man(a) * 64) % n # 0))

\* a / b: long division of the significands, 6 quotient bits at a time
F32Div(a, b) ==
  IF a = 0 THEN 0
  ELSE LET ma == F32Man(a)
           mb == F32Man(b)
           q0 == ma \div mb
           r0 == ma % mb
           d1 == (r0 * 64) \div mb
           r1 == (r0 * 64) % mb
           d2 == (r1 * 64) \div mb
           r2 == (r1 * 64) % mb
           d3 == (r2 * 64) \div mb
           r3 == (r2 * 64) % mb
           d4 == (r3 * 64) \div mb
           r4 == (r3 * 64) % mb
           d5 == (r4 * 4) \div mb
           r5 == (r4 * 4) % mb
           q  == ((((q0 * 64 + d1) * 64 + d2) * 64 + d3) * 64 + d4) * 4 + d5
       IN F32RoundPack(Sgn(a) * Sgn(b), F32Exp(a) - F32Exp(b) - 26,
                       Jam(q, r5 # 0))

----------------------------------------------------------------------------
(* program constants *)

ScannerNumSensors == 5

MegaNumSensors == 6

\* pulseIn(echoPin, HIGH, 30000): echo timeout in microseconds
PulseTimeout == 30000

\* delayMicroseconds(2) with the trigger low, before the pulse
TrigLowMicros == 2

\* delayMicroseconds(10) with the trigger high
TrigHighMicros == 10

\* delay(30) after every channel, in milliseconds
SettleMillis == 30

\* the float literal 0.0343 (0x3D0C7E28)
SoundCmPerMicro == 1024228904

\* slip: the minimum accumulator starts at 0 like the maximum
MinDistStart_zero == F32FromInt(0)

\* float minDist = 9999
MinDistStart == F32FromInt(9999)

\* return -1
Sentinel == F32FromInt(-1)

HazardRange == F32FromInt(50)

UnevenRange == F32FromInt(20)

NoGroundCount == 3

----------------------------------------------------------------------------
(* bounds of the model *)

\* sweeps of the scanner that are explored (it counts them in scanCount)
MaxScans == 2

\* echo widths in microseconds that pulseIn reports for a surface at
\* 10, 25 and 70 cm (the driver converts them to 9.998, 25.005, 70.006)
Echo == [cm10 |-> 583, cm25 |-> 1458, cm70 |-> 4082]

\* the surfaces explored: the two levels the ground below offers in a run
Grounds == {{Echo.cm10, Echo.cm70}, {Echo.cm10, Echo.cm25},
            {Echo.cm25, Echo.cm70}}

----------------------------------------------------------------------------
VARIABLES
  fw,               \* which sketch runs: "scanner" or "mega"
  ground,           \* echo widths the surface below can return
  pc,               \* position of the main loop: "loop", "sweep", "print"
  i,                \* loop index of readTerrainArray
  sum, sumSq, validCount, minDist, maxDist,   \* locals of readTerrainArray
  terrain,          \* terrain[] / telemetry.terrain[]
  terrainMin, terrainMax, terrainVariance, terrainStatus,
  scanCount,        \* scanner only
  now,              \* microseconds since readTerrainArray was entered
  trigAt,           \* time of the latest rising edge on TRIG_PIN, -1 if none
  echoEndAt,        \* time the latest pulseIn returned, -1 if none
  pulses            \* calls of pulseIn in this sweep: echo pin and result

\* the main loop of the mega and the rest of its telemetry record
VARIABLES
  mpc,              \* statement of loop() the mega is at
  clock,            \* millis(), as of the latest statement of loop()
  startedAt,        \* millis() when the run that is explored began
  lastUpdate, lastTerrain,    \* statics of loop()
  missionTime,
  accel, roll, pitch, mag, heading,
  temperature, humidity,
  gps               \* latitude, longitude, gpsAltitude, gpsSatellites, gpsValid

sweepVars == <<fw, ground, pc, i, sum, sumSq, validCount, minDist, maxDist,
               terrain, terrainMin, terrainMax, terrainVariance, terrainStatus,
               scanCount, now, trigAt, echoEndAt, pulses>>

megaVars == <<mpc, clock, startedAt, lastUpdate, lastTerrain, missionTime,
              accel, roll, pitch, mag, heading, temperature, humidity, gps>>

\* the rest of the state of the three sketches
VARIABLES
  lastScan,         \* static of loop() of the scanner
  parachuteDeployed, status, batteryVoltage,   \* telemetry of the ESP8266
  request,          \* the latest request server.handleClient dispatched
  rx,               \* characters the GPS has sent that are not yet read
  idx,              \* write index of the line buffer of readGPS
  buffer,           \* the line buffer, as far as it has been written
  overrun           \* indices outside the buffer that have been written

otherVars == <<lastScan, parachuteDeployed, status, batteryVoltage, request,
               rx, idx, buffer, overrun>>

vars == <<sweepVars, megaVars, otherVars>>

\* what pulseIn can return on a channel: 0 is the timeout
Durations == {0} \cup ground

NumSensors == IF fw = "scanner" THEN ScannerNumSensors ELSE MegaNumSensors

\* echoPins[] of the scanner: ECHO_PIN_0 .. ECHO_PIN_4
Scanner_echoPins == <<3, 4, 5, 6, 7>>

\* echoPins[] of the mega: ECHO_PIN_0 .. ECHO_PIN_5
Mega_echoPins == <<23, 25, 27, 29, 31, 33>>

\* echoPins[k] is echoPins[k + 1] here: sequences start at 1
echoPins == IF fw = "scanner" THEN Scanner_echoPins ELSE Mega_echoPins

----------------------------------------------------------------------------
(* readSingleUltrasonic *)

\* slip: a timeout is reported as distance 0
readSingleUltrasonic_zeroOnTimeout(duration) ==
  IF duration = 0 THEN 0
  ELSE F32DivInt(F32Mul(F32FromInt(duration), SoundCmPerMicro), 2)

\* the value returned for the echo width pulseIn measured
readSingleUltrasonic(duration) ==
  IF duration = 0 THEN Sentinel
  ELSE F32DivInt(F32Mul(F32FromInt(duration), SoundCmPerMicro), 2)

\* time pulseIn blocks: the echo pulse, or the whole timeout
pulseInElapsed(duration) == IF duration = 0 THEN PulseTimeout ELSE duration

\* rising edge of the trigger when readSingleUltrasonic is entered at t
TriggerTime(t) == t + TrigLowMicros

\* return of pulseIn when readSingleUltrasonic is entered at t
EchoEndTime(t, duration) ==
  t + TrigLowMicros + TrigHighMicros + pulseInElapsed(duration)

\* slip: no settling delay after a channel that timed out
BodyEndTime_noSettleOnTimeout(t, duration) ==
  IF duration = 0 THEN EchoEndTime(t, duration)
  ELSE EchoEndTime(t, duration) + SettleMillis * 1000

\* end of the loop body: the settling delay follows the measurement
BodyEndTime(t, duration) == EchoEndTime(t, duration) + SettleMillis * 1000

----------------------------------------------------------------------------
(* analyzeTerrain *)

\* slip: the range tests come before the test of the timed-out channels
Scanner_analyzeTerrain_rangeFirst(vc, tMin, tMax) ==
  LET range      == F32Sub(tMax, tMin)
      outOfRange == ScannerNumSensors - vc
  IN IF range > HazardRange THEN "HAZARD!"
     ELSE IF range > UnevenRange THEN "UNEVEN"
     ELSE IF outOfRange >= NoGroundCount THEN "NO_GROUND"
     ELSE IF vc > 0 THEN "FLAT-SAFE"
     ELSE "NO_DATA"

\* slip: the test for timed-out channels is missing
Scanner_analyzeTerrain_noTimeoutTest(vc, tMin, tMax) ==
  LET range == F32Sub(tMax, tMin)
  IN IF range > HazardRange THEN "HAZARD!"
     ELSE IF range > UnevenRange THEN "UNEVEN"
     ELSE IF vc > 0 THEN "FLAT-SAFE"
     ELSE "NO_DATA"

\* slip: the range tests are inverted
Scanner_analyzeTerrain_invertedTests(vc, tMin, tMax) ==
  LET range      == F32Sub(tMax, tMin)
      outOfRange == ScannerNumSensors - vc
  IN IF outOfRange >= NoGroundCount THEN "NO_GROUND"
     ELSE IF range < UnevenRange THEN "HAZARD!"
     ELSE IF range < HazardRange THEN "UNEVEN"
     ELSE IF vc > 0 THEN "FLAT-SAFE"
     ELSE "NO_DATA"

\* slip: the labels of the two range classes are exchanged
Scanner_analyzeTerrain_swapLabels(vc, tMin, tMax) ==
  LET range      == F32Sub(tMax, tMin)
      outOfRange == ScannerNumSensors - vc
  IN IF outOfRange >= NoGroundCount THEN "NO_GROUND"
     ELSE IF range > HazardRange THEN "UNEVEN"
     ELSE IF range > UnevenRange THEN "HAZARD!"
     ELSE IF vc > 0 THEN "FLAT-SAFE"
     ELSE "NO_DATA"

\* slip: the test for an empty sweep comes first
Scanner_analyzeTerrain_noDataFirst(vc, tMin, tMax) ==
  LET range      == F32Sub(tMax, tMin)
      outOfRange == ScannerNumSensors - vc
  IN IF vc = 0 THEN "NO_DATA"
     ELSE IF outOfRange >= NoGroundCount THEN "NO_GROUND"
     ELSE IF range > HazardRange THEN "HAZARD!"
     ELSE IF range > UnevenRange THEN "UNEVEN"
     ELSE "FLAT-SAFE"

Scanner_analyzeTerrain(vc, tMin, tMax) ==
  LET range      == F32Sub(tMax, tMin)
      outOfRange == ScannerNumSensors - vc
  IN IF outOfRange >= NoGroundCount THEN "NO_GROUND"
     ELSE IF range > HazardRange THEN "HAZARD!"
     ELSE IF range > UnevenRange THEN "UNEVEN"
     ELSE IF vc > 0 THEN "FLAT-SAFE"
     ELSE "NO_DATA"

\* slip: NO GROUND needs more than 3 timed-out channels
Mega_analyzeTerrain_strictCount(t, tMin, tMax) ==
  LET range      == F32Sub(tMax, tMin)
      outOfRange == Cardinality({k \in 0..(MegaNumSensors - 1) : t[k] < 0})
  IN IF outOfRange > NoGroundCount THEN "NO GROUND"
     ELSE IF range > HazardRange THEN "HAZARD!"
     ELSE IF range > UnevenRange THEN "UNEVEN"
     ELSE "FLAT-SAFE"

\* slip: the branch for timed-out channels assigns nothing
Mega_analyzeTerrain_keepOnNoGround(t, tMin, tMax) ==
  LET range      == F32Sub(tMax, tMin)
      outOfRange == Cardinality({k \in 0..(MegaNumSensors - 1) : t[k] < 0})
  IN IF outOfRange >= NoGroundCount THEN terrainStatus
     ELSE IF range > HazardRange THEN "HAZARD!"
     ELSE IF range > UnevenRange THEN "UNEVEN"
     ELSE "FLAT-SAFE"

\* slip: a timed-out channel is looked for as 0, not as a negative sample
Mega_analyzeTerrain_countsZero(t, tMin, tMax) ==
  LET range      == F32Sub(tMax, tMin)
      outOfRange == Cardinality({k \in 0..(MegaNumSensors - 1) : t[k] = 0})
  IN IF outOfRange >= NoGroundCount THEN "NO GROUND"
     ELSE IF range > HazardRange THEN "HAZARD!"
     ELSE IF range > UnevenRange THEN "UNEVEN"
     ELSE "FLAT-SAFE"

Mega_analyzeTerrain(t, tMin, tMax) ==
  LET range      == F32Sub(tMax, tMin)
      outOfRange == Cardinality({k \in 0..(MegaNumSensors - 1) : t[k] < 0})
  IN IF outOfRange >= NoGroundCount THEN "NO GROUND"
     ELSE IF range > HazardRange THEN "HAZARD!"
     ELSE IF range > UnevenRange THEN "UNEVEN"
     ELSE "FLAT-SAFE"

\* slip: the square of the mean is not subtracted
Variance_noMeanSq(s, sq, vc) ==
  IF vc > 1 THEN F32DivInt(sq, vc) ELSE 0

\* slip: the sum of squares is divided by validCount - 1
Variance_bessel(s, sq, vc) ==
  IF vc > 1
  THEN LET mean == F32DivInt(s, vc)
       IN F32Sub(F32DivInt(sq, vc - 1), F32Mul(mean, mean))
  ELSE 0

\* variance as computed at the end of readTerrainArray (both sketches)
Variance(s, sq, vc) ==
  IF vc > 1
  THEN LET mean == F32DivInt(s, vc)
       IN F32Sub(F32DivInt(sq, vc), F32Mul(mean, mean))
  ELSE 0

----------------------------------------------------------------------------
(* state after setup() *)

\* the zero-initialised global telemetry and statics of loop() of the mega
MegaZero ==
  /\ lastUpdate = 0 /\ lastTerrain = 0 /\ missionTime = 0
  /\ accel = <<0, 0, 0>> /\ roll = 0 /\ pitch = 0
  /\ mag = <<0, 0, 0>> /\ heading = 0
  /\ temperature = 0 /\ humidity = 0
  /\ gps = [latitude |-> 0, longitude |-> 0, gpsAltitude |-> 0,
            gpsSatellites |-> 0, gpsValid |-> FALSE]

\* terrain[], the terrain fields and the locals of readTerrainArray
InitSweep ==
  /\ pc = "loop"
  /\ i = 0
  /\ sum = 0 /\ sumSq = 0 /\ validCount = 0 /\ minDist = 0 /\ maxDist = 0
  /\ terrain = [k \in 0..(NumSensors - 1) |-> 0]
  /\ terrainMin = 0 /\ terrainMax = 0 /\ terrainVariance = 0
  /\ terrainStatus = "INIT"
  /\ scanCount = 0
  /\ now = 0 /\ trigAt = -1 /\ echoEndAt = -1
  /\ pulses = <<>>

\* the statics and globals outside the telemetry of the mega: zero
\* initialised, the String status empty
InitOther ==
  /\ lastScan = 0
  /\ parachuteDeployed = FALSE /\ status = "" /\ batteryVoltage = 0
  /\ request = ""
  /\ rx = <<>> /\ idx = 0 /\ buffer = <<>> /\ overrun = {}

\* the sweeps of either sketch, whenever loop() starts them
Init ==
  /\ fw \in {"scanner", "mega"}
  /\ ground \in Grounds
  /\ mpc = "top" /\ clock = 0 /\ startedAt = 0
  /\ MegaZero
  /\ InitSweep
  /\ InitOther

\* slip: maxDist is kept from the previous sweep (a static local)
EnterReadTerrainArray_keepMax ==
  /\ sum' = 0
  /\ sumSq' = 0
  /\ validCount' = 0
  /\ minDist' = MinDistStart
  /\ maxDist' = maxDist
  /\ i' = 0
  /\ pc' = "sweep"
  /\ now' = 0 /\ trigAt' = -1 /\ echoEndAt' = -1
  /\ pulses' = <<>>
  /\ UNCHANGED <<fw, ground, terrain, terrainMin, terrainMax, terrainVariance,
                 terrainStatus>>

\* entry of readTerrainArray: the locals are initialised
EnterReadTerrainArray ==
  /\ sum' = 0
  /\ sumSq' = 0
  /\ validCount' = 0
  /\ minDist' = MinDistStart
  /\ maxDist' = 0
  /\ i' = 0
  /\ pc' = "sweep"
  /\ now' = 0 /\ trigAt' = -1 /\ echoEndAt' = -1
  /\ pulses' = <<>>
  /\ UNCHANGED <<fw, ground, terrain, terrainMin, terrainMax, terrainVariance,
                 terrainStatus>>

\* loop() of the scanner up to the call of readTerrainArray
Scanner_loop ==
  /\ fw = "scanner"
  /\ pc = "loop"
  /\ scanCount < MaxScans
  /\ scanCount' = scanCount + 1
  /\ EnterReadTerrainArray
  /\ UNCHANGED megaVars
  /\ UNCHANGED otherVars

\* loop() of the mega up to the call of readTerrainArray
Mega_loop ==
  /\ fw = "mega"
  /\ pc = "loop"
  /\ UNCHANGED scanCount
  /\ EnterReadTerrainArray
  /\ UNCHANGED megaVars
  /\ UNCHANGED otherVars

\* slip: every sample that is not 0 enters the statistics
Accumulates_nonZero(dist) == dist # 0

\* if (dist > 0): the sample enters the statistics
Accumulates(dist) == dist > 0

\* slip: a channel that timed out is measured again
NextIndex_retryOnTimeout(k, duration) == IF duration = 0 THEN k ELSE k + 1

\* i++ of the for loop, whatever pulseIn returned
NextIndex(k, duration) == k + 1

\* slip: the sweep is given up when its first channels all timed out
SweepDone_giveUp ==
  i = NumSensors \/ (i >= NoGroundCount /\ validCount = 0)

\* the for loop has run through: i < NUM_SENSORS is false
SweepDone == i = NumSensors

\* one iteration of the for loop of readTerrainArray
ReadChannel ==
  /\ pc = "sweep"
  /\ ~SweepDone
  /\ \E duration \in Durations :
       LET dist == readSingleUltrasonic(duration) IN
       /\ terrain' = [terrain EXCEPT ![i] = dist]
       /\ IF Accumulates(dist)
          THEN /\ sum' = F32Add(sum, dist)
               /\ sumSq' = F32Add(sumSq, F32Mul(dist, dist))
               /\ validCount' = validCount + 1
               /\ minDist' = IF dist < minDist THEN dist ELSE minDist
               /\ maxDist' = IF dist > maxDist THEN dist ELSE maxDist
          ELSE UNCHANGED <<sum, sumSq, validCount, minDist, maxDist>>
       /\ trigAt' = TriggerTime(now)
       /\ echoEndAt' = EchoEndTime(now, duration)
       /\ now' = BodyEndTime(now, duration)
       /\ pulses' = Append(pulses, [pin |-> echoPins[i + 1],
                                    duration |-> duration])
       /\ i' = NextIndex(i, duration)
  /\ UNCHANGED <<fw, ground, pc, terrainMin, terrainMax, terrainVariance,
                 terrainStatus, scanCount>>
  /\ UNCHANGED megaVars
  /\ UNCHANGED otherVars

\* readTerrainArray of the scanner after the for loop
Scanner_finishSweep ==
  /\ fw = "scanner"
  /\ pc = "sweep"
  /\ SweepDone
  /\ terrainMin' = (IF validCount > 0 THEN minDist ELSE 0)
  /\ terrainMax' = (IF validCount > 0 THEN maxDist ELSE 0)
  /\ terrainVariance' = Variance(sum, sumSq, validCount)
  /\ terrainStatus' = Scanner_analyzeTerrain(validCount, terrainMin', terrainMax')
  /\ pc' = "print"
  /\ UNCHANGED <<fw, ground, i, sum, sumSq, validCount, minDist, maxDist, terrain,
                 scanCount, now, trigAt, echoEndAt, pulses>>
  /\ UNCHANGED megaVars
  /\ UNCHANGED otherVars

\* readTerrainArray of the mega after the for loop
Mega_finishSweep ==
  /\ fw = "mega"
  /\ pc = "sweep"
  /\ SweepDone
  /\ terrainMin' = minDist
  /\ terrainMax' = maxDist
  /\ terrainVariance' = Variance(sum, sumSq, validCount)
  /\ terrainStatus' = Mega_analyzeTerrain(terrain, terrainMin', terrainMax')
  /\ pc' = "print"
  /\ UNCHANGED <<fw, ground, i, sum, sumSq, validCount, minDist, maxDist, terrain,
                 scanCount, now, trigAt, echoEndAt, pulses>>
  /\ UNCHANGED megaVars
  /\ UNCHANGED otherVars

\* printTerrainJSON (and printHumanReadable): output only
printTerrainJSON ==
  /\ pc = "print"
  /\ pc' = "loop"
  /\ UNCHANGED <<fw, ground, i, sum, sumSq, validCount, minDist, maxDist, terrain,
                 terrainMin, terrainMax, terrainVariance, terrainStatus,
                 scanCount, now, trigAt, echoEndAt, pulses>>
  /\ UNCHANGED megaVars
  /\ UNCHANGED otherVars

Next ==
  \/ Scanner_loop
  \/ Mega_loop
  \/ ReadChannel
  \/ Scanner_finishSweep
  \/ Mega_finishSweep
  \/ printTerrainJSON

Spec == Init /\ [][Next]_vars

TypeOK ==
  /\ fw \in {"scanner", "mega"}
  /\ pc \in {"loop", "sweep", "print"}
  /\ i \in 0..NumSensors
  /\ validCount \in 0..i
  /\ terrainStatus \in {"INIT", "NO_GROUND", "NO GROUND", "HAZARD!", "UNEVEN",
                        "FLAT-SAFE", "NO_DATA"}

----------------------------------------------------------------------------
(* unsigned long: the value v is held as v below 2^31 and as v - 2^32     *)
(* from 2^31 on (its two's complement reading), so that the counter       *)
(* passes from 2^32 - 1 to 0 as the step from -1 to 0. The clocks that    *)
(* are explored stay within 2^30 of that point.                           *)

\* a + d modulo 2^32, for a small d >= 0
UAdd(a, d) == a + d

\* a - b modulo 2^32
USub(a, b) == a - b

\* u >= n as unsigned values, for a small n >= 0
UGeq(u, n) == u < 0 \/ u >= n

\* a < b as unsigned values
ULess(a, b) == IF (a < 0) = (b < 0) THEN a < b ELSE b < 0

----------------------------------------------------------------------------
(* orientation: readMPU6050 and readQMC5883L of the mega *)

\* PI of Arduino.h as a float
PI == 1078530011

F180 == F32FromInt(180)

F360 == F32FromInt(360)

One == F32FromInt(1)

\* the quiet NaN of binary32, and the test for any NaN (above infinity)
NAN == 2143289344

isnan(x) == Abs(x) > 2139095040

\* rawX / 16384.0
AccelLsbPerG == F32FromInt(16384)

\* raw counts of one axis for which atan2 is tabulated
RawAxis == <<-32768, -1000, -1, 0, 1, 1000, 32767>>

\* atan2 of libm on the floats of RawAxis, rounded to float: Atan2Tab[j][k]
\* is atan2(RawAxis[j], RawAxis[k]) in radians; atan2(0, 0) is 0
Atan2Tab ==
  <<<<-1075235812, -1070397323, -1070141659, -1070141403, -1070141147,
      -1069885482, -1061753051>>,
    <<-1078402050, -1075235812, -1070149791, -1070141403, -1070133014,
      -1061752795, -1023012376>>,
    <<-1078529883, -1078525816, -1075235812, -1070141403, -1061752795,
      -981668460, -939524352>>,
    <<1078530011, 1078530011, 1078530011, 0, 0, 0, 0>>,
    <<1078529883, 1078525816, 1075235812, 1070141403, 1061752795,
      981668460, 939524352>>,
    <<1078402050, 1075235812, 1070149791, 1070141403, 1070133014,
      1061752795, 1023012376>>,
    <<1075235876, 1070397331, 1070141659, 1070141403, 1070141147,
      1069885474, 1061752795>>>>

AxisIndex(v) == CHOOSE k \in 1..Len(RawAxis) : F32FromInt(RawAxis[k]) = v

atan2(y, x) == Atan2Tab[AxisIndex(y)][AxisIndex(x)]

\* sqrt of libm where the model calls it: on 0 and on 1
sqrt(x) == CASE x = 0 -> 0 [] x = One -> One

\* slip: degrees are taken as radians * PI / 180
Degrees_inverse(rad) == F32Div(F32Mul(rad, PI), F180)

\* radians * 180.0 / PI
Degrees(rad) == F32Div(F32Mul(rad, F180), PI)

\* slip: 180 is added to a negative heading
Heading_addsHalfTurn(rawX, rawY) ==
  LET h == Degrees(atan2(F32FromInt(rawY), F32FromInt(rawX)))
  IN IF h < 0 THEN F32Add(h, F180) ELSE h

\* the heading readQMC5883L stores for the raw counts rawX, rawY
Heading(rawX, rawY) ==
  LET h == Degrees(atan2(F32FromInt(rawY), F32FromInt(rawX)))
  IN IF h < 0 THEN F32Add(h, F360) ELSE h

\* atan2(y, x) * 180.0 / PI of the ESP8266 on the floats of RawAxis: the
\* expression is evaluated in double and stored in the float heading
EspDegTab ==
  <<<<-1124532224, -1119321848, -1119092965, -1119092736, -1119092507,
      -1118863624, -1110704357>>,
    <<-1127366788, -1124532224, -1119100246, -1119092736, -1119085226,
      -1110704128, -1071628224>>,
    <<-1127481229, -1127477589, -1124532224, -1119092736, -1110704128,
      -1030401782, -988098731>>,
    <<1127481344, 1127481344, 1127481344, 0, 0, 0, 0>>,
    <<1127481229, 1127477589, 1124532224, 1119092736, 1110704128,
      1030401782, 988098731>>,
    <<1127366788, 1124532224, 1119100246, 1119092736, 1119085226,
      1110704128, 1071628224>>,
    <<1124532281, 1119321855, 1119092965, 1119092736, 1119092507,
      1118863617, 1110704128>>>>

\* the heading readQMC5883L of the ESP8266 stores
Esp_Heading(rawX, rawY) ==
  LET h == EspDegTab[AxisIndex(F32FromInt(rawY))][AxisIndex(F32FromInt(rawX))]
  IN IF h < 0 THEN F32Add(h, F360) ELSE h

\* roll and pitch readMPU6050 stores for the accelerations ax, ay, az (in g)
Roll(ax, ay, az) == Degrees(atan2(ay, az))

Pitch(ax, ay, az) ==
  Degrees(atan2(-ax, sqrt(F32Add(F32Mul(ay, ay), F32Mul(az, az)))))

----------------------------------------------------------------------------
(* parseGPGGA of the mega *)

\* float to int conversion of (int)(raw / 100): truncation
F32ToInt(x) ==
  IF x = 0 \/ F32Exp(x) < -23 THEN 0
  ELSE IF F32Exp(x) >= 0 THEN Sgn(x) * F32Man(x) * Pow2(F32Exp(x))
  ELSE Sgn(x) * (F32Man(x) \div Pow2(-F32Exp(x)))

\* latitude or longitude from the ddmm.mmmm value of the sentence
DegMin(raw) ==
  LET deg == F32ToInt(F32Div(raw, F32FromInt(100)))
      min == F32Sub(raw, F32FromInt(deg * 100))
  IN F32Add(F32FromInt(deg), F32Div(min, F32FromInt(60)))

\* telemetry after the k-th token of a $GPGGA sentence, tokens as strtok
\* yields them: a token is its atof value, its atoi value and its first char
RECURSIVE parseGPGGA(_, _, _)
parseGPGGA(g, tokens, k) ==
  IF k = 0 THEN g
  ELSE LET h   == parseGPGGA(g, tokens, k - 1)
           tok == tokens[k]
       IN CASE k = 3  -> [h EXCEPT !.latitude = DegMin(tok.atof)]
            [] k = 4  -> IF tok.first = "S"
                         THEN [h EXCEPT !.latitude = -h.latitude] ELSE h
            [] k = 5  -> [h EXCEPT !.longitude = DegMin(tok.atof)]
            [] k = 6  -> IF tok.first = "W"
                         THEN [h EXCEPT !.longitude = -h.longitude] ELSE h
            [] k = 7  -> [h EXCEPT !.gpsValid = tok.atoi > 0]
            [] k = 8  -> [h EXCEPT !.gpsSatellites = tok.atoi]
            [] k = 10 -> [h EXCEPT !.gpsAltitude = tok.atof]
            [] OTHER  -> h

----------------------------------------------------------------------------
(* loop() of the mega, statement by statement *)

TELEMETRY_INTERVAL == 500

TERRAIN_INTERVAL == 1000

\* millis() when loop() is first entered: setup() blinks the LED with six
\* delay(200)
SetupMillis == 1200

\* bounds of the runs of the mega that are explored
\* milliseconds after its start at which a run enters loop() no more
Horizon == 1100

\* milliseconds before the counter passes 2^32 at which the late run starts
WrapLead == 600

\* milliseconds from the end of one pass of loop() to the start of the next
LoopGaps == {250}

\* what the surface returns in the runs of the mega
MegaGround == {Echo.cm25}

\* raw counts read from the MPU6050 and from the QMC5883L
RawAccel == {<<0, 0, 16384>>, <<0, 16384, 0>>}

RawMag == {<<1, 0, -1000>>, <<0, -1, -1000>>}

\* what dht.readTemperature and dht.readHumidity return: NAN on a failed
\* reading
DhtSamples == {[t |-> NAN, h |-> NAN],
               [t |-> F32FromInt(24), h |-> F32FromInt(60)]}

Tok(f, n, c) == [atof |-> f, atoi |-> n, first |-> c]

\* $GPGGA,123519,2830.0000,N,07712.0000,E,1,08,0.9,545.0,M,46.9,M,,*47 and
\* $GPGGA,123520,3352.0000,S,15112.0000,W,2,05,1.4,58.0,M,19.6,M,,*4B
Sentences ==
  {<<Tok(0, 0, "$"), Tok(F32FromInt(123519), 123519, "1"),
     Tok(F32FromInt(2830), 2830, "2"), Tok(0, 0, "N"),
     Tok(F32FromInt(7712), 7712, "0"), Tok(0, 0, "E"),
     Tok(One, 1, "1"), Tok(F32FromInt(8), 8, "0"),
     Tok(F32Div(F32FromInt(9), F32FromInt(10)), 0, "0"),
     Tok(F32FromInt(545), 545, "5"), Tok(0, 0, "M")>>,
   <<Tok(0, 0, "$"), Tok(F32FromInt(123520), 123520, "1"),
     Tok(F32FromInt(3352), 3352, "3"), Tok(0, 0, "S"),
     Tok(F32FromInt(15112), 15112, "1"), Tok(0, 0, "W"),
     Tok(F32FromInt(2), 2, "2"), Tok(F32FromInt(5), 5, "0"),
     Tok(F32Div(F32FromInt(14), F32FromInt(10)), 1, "1"),
     Tok(F32FromInt(58), 58, "5"), Tok(0, 0, "M")>>}

\* the mega enters loop() for the first time
InitMegaBoot ==
  /\ fw = "mega"
  /\ ground = MegaGround
  /\ mpc = "top"
  /\ clock = SetupMillis
  /\ startedAt = clock
  /\ MegaZero
  /\ InitSweep
  /\ InitOther

\* the mega late in a long run, WrapLead ms before millis() passes 2^32:
\* the latest sweep timed out on every channel, the latest readings were
\* taken level and heading east, without a GPS fix
InitMegaLate ==
  /\ fw = "mega"
  /\ ground = MegaGround
  /\ mpc = "top"
  /\ clock = -WrapLead
  /\ startedAt = clock
  /\ lastTerrain = USub(clock, 400)
  /\ lastUpdate = USub(clock, 250)
  /\ missionTime = USub(clock, 250)
  /\ accel = <<0, 0, One>>
  /\ roll = Roll(0, 0, One) /\ pitch = Pitch(0, 0, One)
  /\ mag = <<F32FromInt(1), 0, F32FromInt(-1000)>>
  /\ heading = Heading(1, 0)
  /\ temperature = F32FromInt(24) /\ humidity = F32FromInt(60)
  /\ gps = [latitude |-> 0, longitude |-> 0, gpsAltitude |-> 0,
            gpsSatellites |-> 0, gpsValid |-> FALSE]
  /\ pc = "loop"
  /\ i = MegaNumSensors
  /\ sum = 0 /\ sumSq = 0 /\ validCount = 0
  /\ minDist = MinDistStart /\ maxDist = 0
  /\ terrain = [k \in 0..(MegaNumSensors - 1) |-> Sentinel]
  /\ terrainMin = MinDistStart /\ terrainMax = 0 /\ terrainVariance = 0
  /\ terrainStatus = "NO GROUND"
  /\ scanCount = 0
  /\ now = MegaNumSensors * BodyEndTime(0, 0)
  /\ trigAt = TriggerTime((MegaNumSensors - 1) * BodyEndTime(0, 0))
  /\ echoEndAt = EchoEndTime((MegaNumSensors - 1) * BodyEndTime(0, 0), 0)
  /\ pulses = [k \in 1..MegaNumSensors |->
                 [pin |-> Mega_echoPins[k], duration |-> 0]]
  /\ InitOther

\* slip: the sweep is tested only in a pass that has no sensor cycle due
TerrainDue_unlessSensors ==
  /\ UGeq(USub(clock, lastTerrain), TERRAIN_INTERVAL)
  /\ ~UGeq(USub(clock, lastUpdate), TELEMETRY_INTERVAL)

\* slip: the sweep is scheduled with the telemetry interval
TerrainDue_telemetryInterval ==
  UGeq(USub(clock, lastTerrain), TELEMETRY_INTERVAL)

\* the interval tests of loop(): millis() - last >= interval, unsigned
TerrainDue == UGeq(USub(clock, lastTerrain), TERRAIN_INTERVAL)

SensorsDue == UGeq(USub(clock, lastUpdate), TELEMETRY_INTERVAL)

\* slip: the mission time is counted from the latest sensor cycle
MissionTimeNow_sinceUpdate == USub(clock, lastUpdate)

\* millis() as loop() stores it in telemetry.missionTime
MissionTimeNow == clock

\* telemetry.missionTime = millis()
Mega_missionTime ==
  /\ fw = "mega"
  /\ mpc = "top"
  /\ UGeq(Horizon - 1, USub(clock, startedAt))
  /\ missionTime' = MissionTimeNow
  /\ mpc' = "gps"
  /\ UNCHANGED <<clock, startedAt, lastUpdate, lastTerrain, accel, roll, pitch,
                 mag, heading, temperature, humidity, gps>>
  /\ UNCHANGED sweepVars
  /\ UNCHANGED otherVars

\* slip: the GPS is read from the serial interrupt, whatever loop() is doing
Mega_readGPS_anytime ==
  /\ fw = "mega"
  /\ mpc \in {"gps", "terrain"}
  /\ \E sentence \in Sentences :
       gps' = parseGPGGA(gps, sentence, Len(sentence))
  /\ mpc' = "terrain"
  /\ UNCHANGED <<clock, startedAt, lastUpdate, lastTerrain, missionTime, accel,
                 roll, pitch, mag, heading, temperature, humidity>>
  /\ UNCHANGED sweepVars
  /\ UNCHANGED otherVars

\* readGPS: the bytes received so far end a $GPGGA sentence, or do not
Mega_readGPS ==
  /\ fw = "mega"
  /\ mpc = "gps"
  /\ \/ UNCHANGED gps
     \/ \E sentence \in Sentences :
          gps' = parseGPGGA(gps, sentence, Len(sentence))
  /\ mpc' = "terrain"
  /\ UNCHANGED <<clock, startedAt, lastUpdate, lastTerrain, missionTime, accel,
                 roll, pitch, mag, heading, temperature, humidity>>
  /\ UNCHANGED sweepVars
  /\ UNCHANGED otherVars

\* the terrain interval has elapsed: lastTerrain = millis(), and
\* readTerrainArray is entered
Mega_startSweep ==
  /\ fw = "mega"
  /\ mpc = "terrain"
  /\ pc = "loop"
  /\ TerrainDue
  /\ lastTerrain' = clock
  /\ EnterReadTerrainArray
  /\ UNCHANGED <<scanCount, mpc, clock, startedAt, lastUpdate, missionTime,
                 accel, roll, pitch, mag, heading, temperature, humidity, gps>>
  /\ UNCHANGED otherVars

\* printTerrainJSON after readTerrainArray has returned: millis() has gone
\* on by the time the sweep took
Mega_printTerrainJSON ==
  /\ fw = "mega"
  /\ mpc = "terrain"
  /\ pc = "print"
  /\ pc' = "loop"
  /\ clock' = UAdd(clock, now \div 1000)
  /\ mpc' = "sensors"
  /\ UNCHANGED <<fw, ground, i, sum, sumSq, validCount, minDist, maxDist,
                 terrain, terrainMin, terrainMax, terrainVariance,
                 terrainStatus, scanCount, now, trigAt, echoEndAt, pulses>>
  /\ UNCHANGED <<startedAt, lastUpdate, lastTerrain, missionTime, accel, roll,
                 pitch, mag, heading, temperature, humidity, gps>>
  /\ UNCHANGED otherVars

\* the terrain interval has not elapsed
Mega_skipSweep ==
  /\ fw = "mega"
  /\ mpc = "terrain"
  /\ pc = "loop"
  /\ ~TerrainDue
  /\ mpc' = "sensors"
  /\ UNCHANGED <<clock, startedAt, lastUpdate, lastTerrain, missionTime, accel,
                 roll, pitch, mag, heading, temperature, humidity, gps>>
  /\ UNCHANGED sweepVars
  /\ UNCHANGED otherVars

\* the telemetry interval has elapsed: lastUpdate = millis()
Mega_startSensors ==
  /\ fw = "mega"
  /\ mpc = "sensors"
  /\ SensorsDue
  /\ lastUpdate' = clock
  /\ mpc' = "mpu"
  /\ UNCHANGED <<clock, startedAt, lastTerrain, missionTime, accel, roll, pitch,
                 mag, heading, temperature, humidity, gps>>
  /\ UNCHANGED sweepVars
  /\ UNCHANGED otherVars

Mega_skipSensors ==
  /\ fw = "mega"
  /\ mpc = "sensors"
  /\ ~SensorsDue
  /\ mpc' = "end"
  /\ UNCHANGED <<clock, startedAt, lastUpdate, lastTerrain, missionTime, accel,
                 roll, pitch, mag, heading, temperature, humidity, gps>>
  /\ UNCHANGED sweepVars
  /\ UNCHANGED otherVars

Mega_readMPU6050 ==
  /\ fw = "mega"
  /\ mpc = "mpu"
  /\ \E raw \in RawAccel :
       LET ax == F32Div(F32FromInt(raw[1]), AccelLsbPerG)
           ay == F32Div(F32FromInt(raw[2]), AccelLsbPerG)
           az == F32Div(F32FromInt(raw[3]), AccelLsbPerG)
       IN /\ accel' = <<ax, ay, az>>
          /\ roll' = Roll(ax, ay, az)
          /\ pitch' = Pitch(ax, ay, az)
  /\ mpc' = "qmc"
  /\ UNCHANGED <<clock, startedAt, lastUpdate, lastTerrain, missionTime, mag,
                 heading, temperature, humidity, gps>>
  /\ UNCHANGED sweepVars
  /\ UNCHANGED otherVars

\* slip: the heading is stored in the wrong field of telemetry
readQMC5883L_wrongField(raws) ==
  \E raw \in raws :
    /\ mag' = <<F32FromInt(raw[1]), F32FromInt(raw[2]), F32FromInt(raw[3])>>
    /\ heading' = Heading(raw[1], raw[2])
    /\ temperature' = heading'
    /\ UNCHANGED <<clock, startedAt, lastUpdate, lastTerrain, missionTime,
                   accel, roll, pitch, humidity, gps>>
    /\ UNCHANGED sweepVars
    /\ UNCHANGED otherVars

\* readQMC5883L of the mega when the sensor delivers one of raws
readQMC5883L(raws) ==
  \E raw \in raws :
    /\ mag' = <<F32FromInt(raw[1]), F32FromInt(raw[2]), F32FromInt(raw[3])>>
    /\ heading' = Heading(raw[1], raw[2])
    /\ UNCHANGED <<clock, startedAt, lastUpdate, lastTerrain, missionTime,
                   accel, roll, pitch, temperature, humidity, gps>>
    /\ UNCHANGED sweepVars
    /\ UNCHANGED otherVars

Mega_readQMC5883L ==
  /\ fw = "mega"
  /\ mpc = "qmc"
  /\ readQMC5883L(RawMag)
  /\ mpc' = "dht"

Mega_readDHT ==
  /\ fw = "mega"
  /\ mpc = "dht"
  /\ \E d \in DhtSamples :
       /\ temperature' = (IF ~isnan(d.t) THEN d.t ELSE temperature)
       /\ humidity' = (IF ~isnan(d.h) THEN d.h ELSE humidity)
  /\ mpc' = "telemetry"
  /\ UNCHANGED <<clock, startedAt, lastUpdate, lastTerrain, missionTime, accel,
                 roll, pitch, mag, heading, gps>>
  /\ UNCHANGED sweepVars
  /\ UNCHANGED otherVars

\* the heartbeat LED and printTelemetry: output only
Mega_printTelemetry ==
  /\ fw = "mega"
  /\ mpc = "telemetry"
  /\ mpc' = "end"
  /\ UNCHANGED <<clock, startedAt, lastUpdate, lastTerrain, missionTime, accel,
                 roll, pitch, mag, heading, temperature, humidity, gps>>
  /\ UNCHANGED sweepVars
  /\ UNCHANGED otherVars

\* loop() returns and is called again
Mega_loopAgain ==
  /\ fw = "mega"
  /\ mpc = "end"
  /\ \E gap \in LoopGaps : clock' = UAdd(clock, gap)
  /\ mpc' = "top"
  /\ UNCHANGED <<startedAt, lastUpdate, lastTerrain, missionTime, accel, roll,
                 pitch, mag, heading, temperature, humidity, gps>>
  /\ UNCHANGED sweepVars
  /\ UNCHANGED otherVars

InitMega == InitMegaBoot \/ InitMegaLate

NextMega ==
  \/ Mega_missionTime
  \/ Mega_readGPS
  \/ Mega_startSweep
  \/ ReadChannel
  \/ Mega_finishSweep
  \/ Mega_printTerrainJSON
  \/ Mega_skipSweep
  \/ Mega_startSensors
  \/ Mega_skipSensors
  \/ Mega_readMPU6050
  \/ Mega_readQMC5883L
  \/ Mega_readDHT
  \/ Mega_printTelemetry
  \/ Mega_loopAgain

SpecMega == InitMega /\ [][NextMega]_vars

----------------------------------------------------------------------------
(* readQMC5883L on its own, for every raw sample of a bounded set *)

\* raw counts of the magnetometer: every pair of RawAxis for X and Y
AllRawMag ==
  {<<RawAxis[j], RawAxis[k], z>> : j, k \in 1..Len(RawAxis),
                                  z \in {-1000, 0, 1000}}

InitHeading ==
  /\ fw \in {"mega", "esp8266"}
  /\ ground = MegaGround
  /\ mpc = "qmc"
  /\ clock = SetupMillis
  /\ startedAt = clock
  /\ MegaZero
  /\ InitSweep
  /\ InitOther

Mega_readQMC5883L_alone ==
  /\ fw = "mega"
  /\ readQMC5883L(AllRawMag)
  /\ UNCHANGED mpc

\* readQMC5883L of the ESP8266: nothing is stored unless 6 bytes arrived
Esp_readQMC5883L ==
  /\ fw = "esp8266"
  /\ \/ UNCHANGED <<mag, heading>>
     \/ \E raw \in AllRawMag :
          /\ mag' = <<F32FromInt(raw[1]), F32FromInt(raw[2]),
                      F32FromInt(raw[3])>>
          /\ heading' = Esp_Heading(raw[1], raw[2])
  /\ UNCHANGED <<mpc, clock, startedAt, lastUpdate, lastTerrain, missionTime,
                 accel, roll, pitch, temperature, humidity, gps>>
  /\ UNCHANGED sweepVars
  /\ UNCHANGED otherVars

NextHeading ==
  \/ Mega_readQMC5883L_alone
  \/ Esp_readQMC5883L

SpecHeading == InitHeading /\ [][NextHeading]_vars

----------------------------------------------------------------------------
(* vocabulary of the properties: everything is read off the samples that  *)
(* the sweep stored in terrain[], not off the accumulators of the code    *)

Channels == 0..(NumSensors - 1)

ValidChannels == {k \in Channels : terrain[k] > 0}

NValid == Cardinality(ValidChannels)

NInvalid == NumSensors - NValid

ValidSamples == {terrain[k] : k \in ValidChannels}

SetMin(S) == CHOOSE m \in S : \A x \in S : m <= x

SetMax(S) == CHOOSE m \in S : \A x \in S : x <= m

\* max - min of the valid samples, 0 when there is none
SampleRange ==
  IF ValidSamples = {} THEN 0
  ELSE F32Sub(SetMax(ValidSamples), SetMin(ValidSamples))

\* readTerrainArray has just returned: terrain[] holds one whole sweep
Swept == pc = "print"

AllTimedOut == \A k \in Channels : terrain[k] = Sentinel

AllValidEqual == NValid >= 1 /\ Cardinality(ValidSamples) = 1

Classes == {"FLAT_SAFE", "UNEVEN", "HAZARD", "NO_GROUND", "NO_DATA"}

\* the classification a status string of either sketch stands for
ClassOf(str) ==
  CASE str = "FLAT-SAFE" -> "FLAT_SAFE"
    [] str = "UNEVEN"    -> "UNEVEN"
    [] str = "HAZARD!"   -> "HAZARD"
    [] str = "NO_GROUND" -> "NO_GROUND"
    [] str = "NO GROUND" -> "NO_GROUND"
    [] str = "NO_DATA"   -> "NO_DATA"
    [] OTHER                -> "none"

Class == ClassOf(terrainStatus)

Cm20 == F32FromInt(20)

Cm50 == F32FromInt(50)

\* the ordered decision rule, first match wins
FiveWayRule(n, nValid, range) ==
  IF n - nValid >= 3 THEN "NO_GROUND"
  ELSE IF range > Cm50 THEN "HAZARD"
  ELSE IF range > Cm20 THEN "UNEVEN"
  ELSE IF nValid > 0 THEN "FLAT_SAFE"
  ELSE "NO_DATA"

\* the samples the driver stores for a surface at 10, 25 and 70 cm
D10 == readSingleUltrasonic(Echo.cm10)

D25 == readSingleUltrasonic(Echo.cm25)

D70 == readSingleUltrasonic(Echo.cm70)

\* sum and sum of squares of the valid samples among t[0..k-1], in index order
RECURSIVE SumUpTo(_, _)
SumUpTo(t, k) ==
  IF k = 0 THEN 0
  ELSE IF t[k - 1] > 0 THEN F32Add(SumUpTo(t, k - 1), t[k - 1])
  ELSE SumUpTo(t, k - 1)

RECURSIVE SumSqUpTo(_, _)
SumSqUpTo(t, k) ==
  IF k = 0 THEN 0
  ELSE IF t[k - 1] > 0
       THEN F32Add(SumSqUpTo(t, k - 1), F32Mul(t[k - 1], t[k - 1]))
  ELSE SumSqUpTo(t, k - 1)

\* (sum of squares / validCount) - mean^2 over the valid samples
PopVariance ==
  LET mean == F32DivInt(SumUpTo(terrain, NumSensors), NValid)
  IN F32Sub(F32DivInt(SumSqUpTo(terrain, NumSensors), NValid),
            F32Mul(mean, mean))

\* what a sweep that starts from fresh accumulators publishes for the samples t
SweepResult(f, t) ==
  LET n     == IF f = "scanner" THEN ScannerNumSensors ELSE MegaNumSensors
      valid == {t[k] : k \in {j \in 0..(n - 1) : t[j] > 0}}
      nv    == Cardinality({j \in 0..(n - 1) : t[j] > 0})
      mn    == IF valid # {} THEN SetMin(valid)
               ELSE IF f = "scanner" THEN 0 ELSE MinDistStart
      mx    == IF valid # {} THEN SetMax(valid) ELSE 0
      var   == Variance(SumUpTo(t, n), SumSqUpTo(t, n), nv)
      st    == IF f = "scanner" THEN Scanner_analyzeTerrain(nv, mn, mx)
               ELSE Mega_analyzeTerrain(t, mn, mx)
  IN <<mn, mx, var, st>>

----------------------------------------------------------------------------
\* C1: in the 5-sensor scanner, after every sweep terrainStatus is what the
\* ordered rule gives on that sweep's samples: NO_GROUND with 3 or more
\* non-valid samples, else HAZARD! for a range above 50, else UNEVEN for a
\* range above 20, else FLAT-SAFE with a valid sample, else NO_DATA.
C1_OrderedRule ==
  (fw = "scanner" /\ Swept) =>
     terrainStatus =
       (IF NInvalid >= 3 THEN "NO_GROUND"
        ELSE IF SampleRange > Cm50 THEN "HAZARD!"
        ELSE IF SampleRange > Cm20 THEN "UNEVEN"
        ELSE IF NValid > 0 THEN "FLAT-SAFE"
        ELSE "NO_DATA")

\* three timeouts beside two valid samples that are 60 cm apart
C1_Witness ==
  /\ fw = "scanner" /\ Swept
  /\ NInvalid = 3
  /\ ValidSamples = {D10, D70}
  /\ terrainStatus = "NO_GROUND"

\* C2: within a sweep the trigger of channel k+1 is never raised before the
\* echo measurement of channel k has ended and the settling delay of 30 ms
\* after it has elapsed, in both sketches.
C2_Settled ==
  [][(pc = "sweep" /\ i > 0 /\ i' = i + 1)
       => trigAt' >= echoEndAt + SettleMillis * 1000]_vars

\* channel 1 has been triggered after channel 0 timed out
C2_Witness ==
  /\ pc = "sweep" /\ i = 2
  /\ terrain[0] = Sentinel
  /\ trigAt >= PulseTimeout + SettleMillis * 1000

\* C3: the classifier is total: after every sweep the status is one of the
\* five classes, the one this sweep's samples give (never "INIT", never a
\* value left from an earlier sweep), and a sweep that has started can
\* always take its next step (the guard of ReadChannel or of the finishing
\* step holds, whatever samples were read so far).
C3_Total ==
  /\ Swept => /\ Class \in Classes
              /\ Class = FiveWayRule(NumSensors, NValid, SampleRange)
  /\ pc = "sweep" => (i < NumSensors /\ Durations # {}) \/ i = NumSensors

\* the first sweep of the mega timed out on every channel
C3_Witness ==
  /\ fw = "mega" /\ Swept
  /\ AllTimedOut
  /\ terrainStatus # "INIT"

\* C4: a sweep in which all N channels time out is classified NO_GROUND,
\* for N = 5 and for N = 6.
C4_AllTimeouts == (Swept /\ AllTimedOut) => Class = "NO_GROUND"

C4_Witness == Swept /\ AllTimedOut /\ fw = "scanner" /\ scanCount = 2

\* C5 as stated: valid samples 10 and 70 give HAZARD whatever the number of
\* valid samples.
C5_Original == (Swept /\ ValidSamples = {D10, D70}) => Class = "HAZARD"

\* C5 amended: valid samples 10 and 70 give HAZARD when fewer than 3 channels
\* timed out, and NO_GROUND when 3 or more did.
C5_Amended ==
  (Swept /\ ValidSamples = {D10, D70}) =>
     Class = (IF NInvalid >= 3 THEN "NO_GROUND" ELSE "HAZARD")

C5_Witness ==
  /\ Swept /\ ValidSamples = {D10, D70}
  /\ NInvalid = 2
  /\ Class = "HAZARD"

\* C6 as stated: valid samples 10 and 25 give FLAT_SAFE whatever the other
\* channels returned.
C6_Original == (Swept /\ ValidSamples = {D10, D25}) => Class = "FLAT_SAFE"

\* C6 amended: valid samples 10 and 25 give FLAT_SAFE when fewer than 3
\* channels timed out, and NO_GROUND when 3 or more did.
C6_Amended ==
  (Swept /\ ValidSamples = {D10, D25}) =>
     Class = (IF NInvalid >= 3 THEN "NO_GROUND" ELSE "FLAT_SAFE")

C6_Witness ==
  /\ Swept /\ ValidSamples = {D10, D25}
  /\ NInvalid = 1
  /\ Class = "FLAT_SAFE"

\* C7 as stated: when all valid samples are the same distance, the variance
\* is 0, max - min is 0 and the class is FLAT_SAFE.
C7_Original ==
  (Swept /\ AllValidEqual) =>
     /\ terrainVariance = 0
     /\ F32Sub(terrainMax, terrainMin) = 0
     /\ Class = "FLAT_SAFE"

\* C7 amended: when all valid samples are the same distance, max - min is 0,
\* the class is FLAT_SAFE when fewer than 3 channels timed out and NO_GROUND
\* otherwise, and the variance is 0 when 1, 2 or 4 samples are valid (the
\* single-precision sums of 3, 5 or 6 equal samples can leave a residue).
C7_Amended ==
  (Swept /\ AllValidEqual) =>
     /\ F32Sub(terrainMax, terrainMin) = 0
     /\ Class = (IF NInvalid >= 3 THEN "NO_GROUND" ELSE "FLAT_SAFE")
     /\ NValid \in {1, 2, 4} => terrainVariance = 0

C7_Witness ==
  /\ Swept /\ AllValidEqual
  /\ NValid = 4
  /\ Class = "FLAT_SAFE"
  /\ terrainVariance = 0

\* the residue itself: equal samples, fewer than 3 timeouts, variance not 0
C7_ResidueSeen ==
  /\ Swept /\ AllValidEqual
  /\ Class = "FLAT_SAFE"
  /\ terrainVariance # 0

\* C8: a sweep without a valid sample has variance 0 and is classified
\* NO_DATA if fewer than 3 samples are invalid, else NO_GROUND.
C8_NoValid ==
  (Swept /\ NValid = 0) =>
     /\ terrainVariance = 0
     /\ Class = (IF NInvalid < 3 THEN "NO_DATA" ELSE "NO_GROUND")

C8_Witness == Swept /\ NValid = 0 /\ fw = "scanner" /\ scanCount = 1

\* C9: after every sweep terrainVariance is (sum of squares / validCount) -
\* mean^2 over the valid samples when more than one is valid, and 0 when at
\* most one is.
C9_Variance ==
  Swept => terrainVariance = (IF NValid > 1 THEN PopVariance ELSE 0)

\* two valid samples 60 cm apart: the variance is 900
C9_Witness ==
  /\ Swept /\ NValid = 2
  /\ ValidSamples = {D10, D70}
  /\ terrainVariance > F32FromInt(899)

\* C10: what a sweep publishes (min, max, variance, status) is a function of
\* that sweep's samples alone, whatever sweeps came before it.
C10_NoHistory ==
  Swept => <<terrainMin, terrainMax, terrainVariance, terrainStatus>>
             = SweepResult(fw, terrain)

\* the second sweep of the scanner sees flat ground
C10_Witness ==
  /\ fw = "scanner" /\ Swept /\ scanCount = 2
  /\ NValid = 5
  /\ terrainStatus = "FLAT-SAFE"

----------------------------------------------------------------------------
\* the sample stored for the k-th call of pulseIn of this sweep
SampleOfPulse(k) == terrain[k - 1]

\* microseconds the calls of pulseIn logged so far account for: per call the
\* trigger pulse, the time pulseIn blocked and the settling delay
RECURSIVE SweepMicros(_)
SweepMicros(k) ==
  IF k = 0 THEN 0
  ELSE SweepMicros(k - 1) + TrigLowMicros + TrigHighMicros
         + pulseInElapsed(pulses[k].duration) + SettleMillis * 1000

\* C11: a stored sample is -1 exactly when pulseIn returned 0 on its channel
\* and strictly positive otherwise (for every echo width pulseIn can return
\* below its timeout); once a sweep has completed every terrain[k] is -1 or
\* positive; a timeout aborts nothing: the sweep still measures all channels.
C11_SentinelOnTimeout ==
  /\ \A k \in 1..Len(pulses) :
       /\ (SampleOfPulse(k) = Sentinel) <=> (pulses[k].duration = 0)
       /\ (pulses[k].duration # 0) => SampleOfPulse(k) > 0
  /\ terrainStatus # "INIT" =>
       \A k \in Channels : terrain[k] = Sentinel \/ terrain[k] > 0
  /\ Swept => Len(pulses) = NumSensors
  /\ (pc = "loop" /\ terrainStatus = "INIT") =>
       \A d \in 1..PulseTimeout : readSingleUltrasonic(d) > 0

\* a sweep that went on after its first channel timed out
C11_Witness ==
  /\ Swept
  /\ pulses[1].duration = 0 /\ terrain[0] = Sentinel
  /\ pulses[NumSensors].duration # 0 /\ terrain[NumSensors - 1] > 0

\* C12: after a sweep with at least one valid sample, terrainMin and
\* terrainMax are the least and the greatest of the samples > 0, validCount
\* is their number, and sum and sumSq are taken over them alone: a -1 enters
\* none of them.
C12_ValidOnly ==
  (Swept /\ NValid >= 1) =>
     /\ terrainMin = SetMin(ValidSamples)
     /\ terrainMax = SetMax(ValidSamples)
     /\ validCount = NValid
     /\ sum = SumUpTo(terrain, NumSensors)
     /\ sumSq = SumSqUpTo(terrain, NumSensors)
     /\ terrainMin > 0

\* one valid sample among timeouts: it is the minimum and the maximum
C12_Witness ==
  /\ Swept /\ NValid = 1 /\ NInvalid >= 4
  /\ terrainMin = terrainMax /\ terrainMin = D25

\* C13: a sweep calls pulseIn on the echo pins in index order, once per
\* channel (the k-th call of a sweep is on echoPins[k - 1], and i calls
\* have been made when the loop index is i), also after a timeout, and the
\* sample stored at index k - 1 is the one measured by the k-th call.
C13_FixedOrder ==
  /\ pc = "sweep" => Len(pulses) = i
  /\ Swept => Len(pulses) = NumSensors
  /\ \A k \in 1..Len(pulses) :
       /\ pulses[k].pin = echoPins[k]
       /\ SampleOfPulse(k) = readSingleUltrasonic(pulses[k].duration)
       /\ \A j \in 1..Len(pulses) : j # k => pulses[j].pin # pulses[k].pin

\* the mega has listened on pin 23, which timed out, then on 25 and 27
C13_Witness ==
  /\ fw = "mega" /\ pc = "sweep" /\ i = 3
  /\ pulses[1] = [pin |-> 23, duration |-> 0]
  /\ pulses[2].pin = 25 /\ pulses[3].pin = 27
  /\ pulses[3].duration = Echo.cm70 /\ terrain[2] = D70

\* C15: a sweep that has started makes exactly N measurements, each followed
\* by its settling delay, and then ends: a step of a sweep is the next
\* measurement or, after the N-th, the end of the sweep; the statistics and
\* the status change in that last step only.
C15_SweepCompletes ==
  /\ [](Swept => /\ i = NumSensors
                 /\ Len(pulses) = NumSensors
                 /\ now = SweepMicros(NumSensors))
  /\ [](pc = "sweep" => (i <= NumSensors /\ now = SweepMicros(i)))
  /\ [][pc = "sweep" => ((pc' = "sweep" /\ i < NumSensors /\ i' = i + 1)
                          \/ (pc' = "print" /\ i = NumSensors))]_vars
  /\ [][<<terrainMin, terrainMax, terrainVariance, terrainStatus>>'
          # <<terrainMin, terrainMax, terrainVariance, terrainStatus>>
        => (pc = "sweep" /\ pc' = "print")]_vars

\* a sweep of the scanner in which the first three channels timed out has
\* ended after five measurements
C15_Witness ==
  /\ fw = "scanner" /\ Swept
  /\ terrain[0] = Sentinel /\ terrain[1] = Sentinel /\ terrain[2] = Sentinel
  /\ terrain[4] > 0
  /\ Len(pulses) = 5
  /\ now >= 3 * PulseTimeout + 5 * SettleMillis * 1000

\* C18: in the mega, after every sweep (each sample -1 or positive) the
\* status is the one the ordered rule gives for N = 6: NO_GROUND with 3 or
\* more samples at -1, else HAZARD for max - min above 50, else UNEVEN above
\* 20, else FLAT_SAFE; NO_DATA never arises with six channels.
C18_MegaRefines ==
  (fw = "mega" /\ Swept) =>
     LET timedOut == Cardinality({k \in 0..5 : terrain[k] = Sentinel})
     IN /\ \A k \in 0..5 : terrain[k] = Sentinel \/ terrain[k] > 0
        /\ terrainStatus =
             (IF timedOut >= 3 THEN "NO GROUND"
              ELSE IF SampleRange > Cm50 THEN "HAZARD!"
              ELSE IF SampleRange > Cm20 THEN "UNEVEN"
              ELSE "FLAT-SAFE")
        /\ Class = FiveWayRule(6, 6 - timedOut, SampleRange)
        /\ Class # "NO_DATA"

\* exactly three timeouts in the mega: NO_GROUND although the range is 60
C18_Witness ==
  /\ fw = "mega" /\ Swept
  /\ NInvalid = 3
  /\ ValidSamples = {D10, D70}
  /\ terrainStatus = "NO GROUND"

----------------------------------------------------------------------------
(* the telemetry record by groups of fields *)

TerrainFields ==
  <<terrain, terrainMin, terrainMax, terrainVariance, terrainStatus>>

OrientationFields == <<accel, roll, pitch, mag, heading>>

EnvFields == <<temperature, humidity>>

\* C14: in the mega a sweep is in progress only at the terrain statement of
\* loop(); while it is, every step is a step of that sweep (the next
\* measurement or its end): no sensor, GPS or clock variable of the main
\* loop changes, no other statement is reached and no other sweep starts;
\* a measurement is triggered only after the one before has ended.
C14_OneSweep ==
  /\ [](pc \in {"sweep", "print"} => mpc = "terrain")
  /\ [][pc = "sweep" =>
          /\ mpc' = mpc
          /\ pc' \in {"sweep", "print"}
          /\ UNCHANGED <<accel, roll, pitch, mag, heading, temperature,
                         humidity, gps, lastUpdate, lastTerrain, missionTime,
                         clock>>
          /\ Len(pulses') <= Len(pulses) + 1]_vars
  /\ [][(pc # "sweep" /\ pc' = "sweep") => (pc = "loop" /\ pulses' = <<>>)]_vars
  /\ [][Len(pulses') = Len(pulses) + 1 =>
          (trigAt' > echoEndAt /\ trigAt' >= now /\ echoEndAt' > trigAt')]_vars

\* the second sweep of a run is in progress, after a sensor cycle and a GPS
\* fix
C14_Witness ==
  /\ pc = "sweep" /\ i = 3
  /\ mpc = "terrain"
  /\ startedAt = SetupMillis /\ lastTerrain >= SetupMillis + 1000
  /\ heading = Heading(0, -1)
  /\ gps.gpsValid

\* C16: in the mega, readMPU6050 and readQMC5883L change nothing but the
\* acceleration, roll, pitch, magnetometer and heading fields (terrain,
\* environment and GPS fields stay), and a sweep changes nothing but the
\* terrain fields (orientation, environment and GPS fields stay); no other
\* statement changes either group.
C16_Frame ==
  /\ [][(mpc = "mpu" \/ mpc = "qmc") =>
          (UNCHANGED <<TerrainFields, EnvFields, gps, missionTime>>)]_vars
  /\ [][(pc = "sweep" \/ pc' = "sweep") =>
          (UNCHANGED <<OrientationFields, EnvFields, gps>>)]_vars
  /\ [][OrientationFields' # OrientationFields => mpc \in {"mpu", "qmc"}]_vars
  /\ [][TerrainFields' # TerrainFields => pc = "sweep"]_vars

\* a sweep has completed over flat ground while the record holds a heading
\* of 270, an acceleration along Y, a DHT reading and a GPS fix
C16_Witness ==
  /\ pc = "print"
  /\ terrainStatus = "FLAT-SAFE"
  /\ heading = F32FromInt(270)
  /\ accel[2] = One
  /\ temperature = F32FromInt(24)
  /\ gps.gpsValid

\* C17: in the mega a sweep starts only in a pass of loop() in which
\* millis() - lastTerrain >= 1000 and a sensor cycle only in one in which
\* millis() - lastUpdate >= 500 (unsigned); the start of a sweep stamps
\* lastTerrain alone, the start of a sensor cycle lastUpdate alone, and
\* nothing else changes either stamp.
C17_Intervals ==
  /\ [][(pc = "loop" /\ pc' = "sweep") =>
          /\ UGeq(USub(clock, lastTerrain), 1000)
          /\ lastTerrain' = clock
          /\ lastUpdate' = lastUpdate]_vars
  /\ [][(mpc = "sensors" /\ mpc' = "mpu") =>
          /\ UGeq(USub(clock, lastUpdate), 500)
          /\ lastUpdate' = clock
          /\ lastTerrain' = lastTerrain]_vars
  /\ [][lastTerrain' # lastTerrain => (pc = "loop" /\ pc' = "sweep")]_vars
  /\ [][lastUpdate' # lastUpdate => (mpc = "sensors" /\ mpc' = "mpu")]_vars

\* the second sweep after the start has just begun, 1000 ms or more after
\* the first, and a sensor cycle has run in between
C17_Witness ==
  /\ pc = "sweep" /\ i = 0
  /\ startedAt = SetupMillis
  /\ lastTerrain >= SetupMillis + 1000
  /\ lastUpdate > SetupMillis /\ lastUpdate < lastTerrain

C20_Heading ==
  LET x   == mag[1]
      y   == mag[2]
      F90 == F32FromInt(90)
      F270 == F32FromInt(270)
  IN /\ heading >= 0 /\ heading < F360
     /\ (y = 0 /\ x >= 0) => heading = 0
     /\ (x = 0 /\ y > 0) => heading = F90
     /\ (y = 0 /\ x < 0) => heading = F180
     /\ (x = 0 /\ y < 0) => heading = F270
     /\ (x > 0 /\ y > 0) => (heading > 0 /\ heading < F90)
     /\ (x < 0 /\ y > 0) => (heading > F90 /\ heading < F180)
     /\ (x < 0 /\ y < 0) => (heading > F180 /\ heading < F270)
     /\ (x > 0 /\ y < 0) => (heading > F270 /\ heading < F360)
     /\ (x > 0 /\ y = x) => heading = F32FromInt(45)

\* the smallest negative angle of the raw range: X = 32767, Y = -1
C20_Witness ==
  /\ fw = "mega"
  /\ mag[1] = F32FromInt(32767) /\ mag[2] = F32FromInt(-1)
  /\ heading > F32FromInt(359) /\ heading < F360

----------------------------------------------------------------------------
\* C23: in the scanner NO_DATA needs validCount = 0 together with fewer
\* than 3 timed-out channels, which 5 channels cannot give: analyzeTerrain
\* returns NO_DATA for no validCount of 0..5, and no completed sweep of the
\* scanner ends with terrainStatus = NO_DATA.
C23_NoDataUnreachable ==
  /\ \A vc \in 0..ScannerNumSensors :
       Scanner_analyzeTerrain(vc, terrainMin, terrainMax) = "NO_DATA"
         => (vc = 0 /\ ScannerNumSensors - vc < NoGroundCount)
  /\ \A vc \in 0..ScannerNumSensors :
       Scanner_analyzeTerrain(vc, terrainMin, terrainMax) # "NO_DATA"
  /\ (fw = "scanner" /\ Swept) => terrainStatus # "NO_DATA"

\* a sweep of the scanner without a valid sample has been classified
C23_Witness ==
  /\ fw = "scanner" /\ Swept
  /\ validCount = 0 /\ NValid = 0
  /\ terrainStatus = "NO_GROUND"

\* C24: after a completed sweep without a valid sample terrainMin and
\* terrainMax are both 0, in the scanner and in the mega.
C24_EmptySweepZero ==
  (Swept /\ NValid = 0) => (terrainMin = 0 /\ terrainMax = 0)

----------------------------------------------------------------------------
(* sweep after sweep, each taken from entry to return of readTerrainArray *)

\* bound: the echo widths a sweep is given, in ascending order with the
\* timeouts last
PairWidths == <<Echo.cm10, Echo.cm25, Echo.cm70, 0>>

PairSweeps ==
  {[k \in 1..NumSensors |-> PairWidths[c[k]]] :
     c \in {d \in [1..NumSensors -> 1..Len(PairWidths)] :
              \A k \in 1..(NumSensors - 1) : d[k] <= d[k + 1]}}

\* now after the first k iterations of the for loop, for the echo widths ds
RECURSIVE SweepClock(_, _)
SweepClock(ds, k) ==
  IF k = 0 THEN 0 ELSE BodyEndTime(SweepClock(ds, k - 1), ds[k])

InitPair ==
  /\ fw \in {"scanner", "mega"}
  /\ ground = {Echo.cm10, Echo.cm25, Echo.cm70}
  /\ mpc = "top" /\ clock = 0 /\ startedAt = 0
  /\ MegaZero
  /\ InitSweep
  /\ InitOther

\* readTerrainArray from its entry to its return
Pair_readTerrainArray ==
  /\ pc = "loop"
  /\ \E ds \in PairSweeps :
       LET n     == NumSensors
           t     == [k \in 0..(n - 1) |-> readSingleUltrasonic(ds[k + 1])]
           valid == {t[k] : k \in {j \in 0..(n - 1) : Accumulates(t[j])}}
           r     == SweepResult(fw, t)
       IN /\ terrain' = t
          /\ sum' = SumUpTo(t, n)
          /\ sumSq' = SumSqUpTo(t, n)
          /\ validCount' = Cardinality({j \in 0..(n - 1) : Accumulates(t[j])})
          /\ minDist' = (IF valid # {} THEN SetMin(valid) ELSE MinDistStart)
          /\ maxDist' = (IF valid # {} THEN SetMax(valid) ELSE 0)
          /\ i' = n
          /\ terrainMin' = r[1]
          /\ terrainMax' = r[2]
          /\ terrainVariance' = r[3]
          /\ terrainStatus' = r[4]
          /\ now' = SweepClock(ds, n)
          /\ trigAt' = TriggerTime(SweepClock(ds, n - 1))
          /\ echoEndAt' = EchoEndTime(SweepClock(ds, n - 1), ds[n])
          /\ pulses' = [k \in 1..n |-> [pin |-> echoPins[k],
                                        duration |-> ds[k]]]
  /\ pc' = "print"
  /\ UNCHANGED <<fw, ground, scanCount>>
  /\ UNCHANGED megaVars
  /\ UNCHANGED otherVars

NextPair ==
  \/ Pair_readTerrainArray
  \/ printTerrainJSON

SpecPair == InitPair /\ [][NextPair]_vars

\* how unsafe a class is: FLAT_SAFE below UNEVEN below HAZARD
Rank(class) ==
  CASE class = "FLAT_SAFE" -> 0
    [] class = "UNEVEN"    -> 1
    [] class = "HAZARD"    -> 2
    [] OTHER               -> 3

\* the step from one completed sweep to the next with as many valid samples
SameCountSweeps ==
  /\ pc = "loop" /\ pc' = "print"
  /\ terrainStatus # "INIT"
  /\ NValid' = NValid

----------------------------------------------------------------------------
(* the GPS line buffer and the NMEA parsers, character by character.       *)
(* A character is a string of length 1, the terminating '\0' the empty     *)
(* string, a C string the sequence of its characters.                      *)

CR == "\r"

LF == "\n"

NUL == ""

\* char buffer[128] / char gpsBuffer[128]
BufferSize == 128

Digit == <<"0", "1", "2", "3", "4", "5", "6", "7", "8", "9">>

IsDigit(c) == \E d \in 1..10 : Digit[d] = c

DigitVal(c) == (CHOOSE d \in 1..10 : Digit[d] = c) - 1

Pow10 == <<1, 10, 100, 1000, 10000, 100000>>

\* first position from a on that holds no digit
RECURSIVE NumEnd(_, _)
NumEnd(s, a) ==
  IF a <= Len(s) /\ IsDigit(s[a]) THEN NumEnd(s, a + 1) ELSE a

\* value of the digits s[a..b-1]
RECURSIVE DecVal(_, _, _)
DecVal(s, a, b) ==
  IF b <= a THEN 0 ELSE DecVal(s, a, b - 1) * 10 + DigitVal(s[b - 1])

\* where the digits start, after an optional sign
NumStart(s) == IF s # <<>> /\ s[1] \in {"-", "+"} THEN 2 ELSE 1

NumSign(s) == IF s # <<>> /\ s[1] = "-" THEN -1 ELSE 1

\* atoi: the leading digits (the values explored fit the 16-bit int of the
\* AVR)
atoi(s) == NumSign(s) * DecVal(s, NumStart(s), NumEnd(s, NumStart(s)))

\* atof, stored in a float: digits, optionally a point and digits; the
\* nearest binary32 to the decimal value
atof(s) ==
  LET a  == NumStart(s)
      b  == NumEnd(s, a)
      c  == IF b <= Len(s) /\ s[b] = "." THEN NumEnd(s, b + 1) ELSE b
      nf == IF c > b THEN c - b - 1 ELSE 0
      n  == DecVal(s, a, b) * Pow10[nf + 1] + DecVal(s, b + 1, c)
  IN IF n = 0 THEN 0
     ELSE F32Div(F32FromInt(NumSign(s) * n), F32FromInt(Pow10[nf + 1]))

\* the fields of a line between its commas, empty ones included
Split(s) ==
  LET commas == {k \in 1..Len(s) : s[k] = ","}
      n      == Cardinality(commas)
      pos(m) == IF m = 0 THEN 0
                ELSE IF m = n + 1 THEN Len(s) + 1
                ELSE CHOOSE k \in commas :
                       Cardinality({j \in commas : j <= k}) = m
  IN [f \in 1..(n + 1) |-> SubSeq(s, pos(f - 1) + 1, pos(f) - 1)]

\* the tokens strtok(s, ",") and strtok(NULL, ",") return in turn: runs of
\* commas are one delimiter, so an empty field yields no token
strtok(s) == SelectSeq(Split(s), LAMBDA f : f # <<>>)

\* strncmp(s, p, n) == 0
strncmp(s, p, n) ==
  \A k \in 1..n :
    (IF k <= Len(s) THEN s[k] ELSE NUL) = (IF k <= Len(p) THEN p[k] ELSE NUL)

\* a token as the parsers use it
TokOf(t) == Tok(atof(t), atoi(t), t[1])

\* the lines the GPS sends in the runs that are explored

\* $GPGGA,123519,2830.00,N,07715.00,E,1,08,0.9,545.0,M,46.9,M,,*47
GGA_Fix ==
  <<"$", "G", "P", "G", "G", "A", ",", "1", "2", "3", "5", "1", "9", ",",
    "2", "8", "3", "0", ".", "0", "0", ",", "N", ",", "0", "7", "7", "1",
    "5", ".", "0", "0", ",", "E", ",", "1", ",", "0", "8", ",", "0", ".",
    "9", ",", "5", "4", "5", ".", "0", ",", "M", ",", "4", "6", ".", "9",
    ",", "M", ",", ",", "*", "4", "7">>

\* $GPGGA,123520.00,,,,,0,00,99.99,,,,,,*66
GGA_NoFix ==
  <<"$", "G", "P", "G", "G", "A", ",", "1", "2", "3", "5", "2", "0", ".",
    "0", "0", ",", ",", ",", ",", ",", "0", ",", "0", "0", ",", "9", "9",
    ".", "9", "9", ",", ",", ",", ",", ",", ",", "*", "6", "6">>

\* $GPGGA,,,,,,0,00,99.99,,,,,,*48
GGA_NoFixNoTime ==
  <<"$", "G", "P", "G", "G", "A", ",", ",", ",", ",", ",", ",", "0", ",",
    "0", "0", ",", "9", "9", ".", "9", "9", ",", ",", ",", ",", ",", ",",
    "*", "4", "8">>

\* $GPGGA,123521,3345.00,S,15130.00,W,2,05,1.4,30.5,M,19.6,M,,*4B
GGA_Low ==
  <<"$", "G", "P", "G", "G", "A", ",", "1", "2", "3", "5", "2", "1", ",",
    "3", "3", "4", "5", ".", "0", "0", ",", "S", ",", "1", "5", "1", "3",
    "0", ".", "0", "0", ",", "W", ",", "2", ",", "0", "5", ",", "1", ".",
    "4", ",", "3", "0", ".", "5", ",", "M", ",", "1", "9", ".", "6", ",",
    "M", ",", ",", "*", "4", "B">>

\* $GPGGA,123522,3345.00,S,15130.00,W,0,00,1.4,30.5,M,19.6,M,,*4E
GGA_FixLost ==
  <<"$", "G", "P", "G", "G", "A", ",", "1", "2", "3", "5", "2", "2", ",",
    "3", "3", "4", "5", ".", "0", "0", ",", "S", ",", "1", "5", "1", "3",
    "0", ".", "0", "0", ",", "W", ",", "0", ",", "0", "0", ",", "1", ".",
    "4", ",", "3", "0", ".", "5", ",", "M", ",", "1", "9", ".", "6", ",",
    "M", ",", ",", "*", "4", "E">>

\* $GPRMC,123519,A,2830.00,N,07715.00,E,2.0,084.4,230394,,,A*6C
RMC_Moving ==
  <<"$", "G", "P", "R", "M", "C", ",", "1", "2", "3", "5", "1", "9", ",",
    "A", ",", "2", "8", "3", "0", ".", "0", "0", ",", "N", ",", "0", "7",
    "7", "1", "5", ".", "0", "0", ",", "E", ",", "2", ".", "0", ",", "0",
    "8", "4", ".", "4", ",", "2", "3", "0", "3", "9", "4", ",", ",", ",",
    "A", "*", "6", "C">>

GGA_Header ==
  <<"$", "G", "P", "G", "G", "A">>

GNGGA_Header ==
  <<"$", "G", "N", "G", "G", "A">>

RMC_Header ==
  <<"$", "G", "P", "R", "M", "C">>

GNRMC_Header ==
  <<"$", "G", "N", "R", "M", "C">>

\* 1.852 km/h per knot, as a float
KnotKmh == 1072500310

\* the zero-initialised telemetry and static of loop() of the ESP8266
EspZero ==
  /\ lastUpdate = 0 /\ lastTerrain = 0 /\ missionTime = 0
  /\ accel = <<0, 0, 0>> /\ roll = 0 /\ pitch = 0
  /\ mag = <<0, 0, 0>> /\ heading = 0
  /\ temperature = 0 /\ humidity = 0
  /\ gps = [latitude |-> 0, longitude |-> 0, gpsAltitude |-> 0,
            gpsSpeed |-> 0, gpsSatellites |-> 0, gpsValid |-> FALSE]

\* parseGPS of the ESP8266 on a GGA sentence: telemetry and the locals lat,
\* lon, latDir, lonDir after the k-th token (fieldIndex = k - 1)
RECURSIVE Esp_ggaFields(_, _, _)
Esp_ggaFields(g, tokens, k) ==
  IF k = 0
  THEN [tel |-> g, lat |-> 0, lon |-> 0, latDir |-> "N", lonDir |-> "E"]
  ELSE LET h   == Esp_ggaFields(g, tokens, k - 1)
           tok == TokOf(tokens[k])
       IN CASE k = 3  -> [h EXCEPT !.lat = tok.atof]
            [] k = 4  -> [h EXCEPT !.latDir = tok.first]
            [] k = 5  -> [h EXCEPT !.lon = tok.atof]
            [] k = 6  -> [h EXCEPT !.lonDir = tok.first]
            [] k = 7  -> [h EXCEPT !.tel.gpsValid = tok.atoi > 0]
            [] k = 8  -> [h EXCEPT !.tel.gpsSatellites = tok.atoi]
            [] k = 10 -> [h EXCEPT !.tel.gpsAltitude = tok.atof]
            [] OTHER  -> h

\* parseGPS of the ESP8266. latDeg + latMin / 60.0 is evaluated in double
\* and stored in a float; on the sentences explored (minutes a multiple of
\* 15) that is the binary32 value DegMin gives. The speed token explored is
\* a power of two, for which the double product rounds to the float product.
parseGPS(g, s) ==
  IF strncmp(s, GGA_Header, 6) \/ strncmp(s, GNGGA_Header, 6)
  THEN LET toks == strtok(s)
           h    == Esp_ggaFields(g, toks, Len(toks))
           t    == h.tel
           la   == DegMin(h.lat)
           lo   == DegMin(h.lon)
       IN IF t.gpsValid /\ h.lat # 0
          THEN [t EXCEPT
                  !.latitude = (IF h.latDir = "S" THEN -la ELSE la),
                  !.longitude = (IF h.lonDir = "W" THEN -lo ELSE lo)]
          ELSE t
  ELSE IF strncmp(s, RMC_Header, 6) \/ strncmp(s, GNRMC_Header, 6)
  THEN LET toks == strtok(s)
       IN IF Len(toks) >= 8
          THEN [g EXCEPT !.gpsSpeed = F32Mul(atof(toks[8]), KnotKmh)]
          ELSE g
  ELSE g

\* parseGPGGA of the mega on the C string s
Mega_parseLine(g, s) ==
  LET toks == strtok(s)
  IN parseGPGGA(g, [k \in 1..Len(toks) |-> TokOf(toks[k])], Len(toks))

\* the array after buffer[k] = c; what was never written is the zero of
\* the static initialisation
Store(buf, k, c) ==
  IF k < Len(buf) THEN [buf EXCEPT ![k + 1] = c]
  ELSE buf \o [j \in 1..(k - Len(buf)) |-> NUL] \o <<c>>

InBuffer(k) == k >= 0 /\ k < BufferSize

\* the C string at the start of the array
CString(buf) ==
  LET nuls == {k \in 1..Len(buf) : buf[k] = NUL}
  IN IF nuls = {} THEN buf
     ELSE SubSeq(buf, 1, (CHOOSE k \in nuls : \A j \in nuls : k <= j) - 1)

\* slip: the whole array is used for the characters of the line
Mega_bufferRoom_upToSize(k) == k < BufferSize

\* idx < 127
Mega_bufferRoom(k) == k < 127

\* gpsBufferIndex < sizeof(gpsBuffer) - 1
Esp_bufferRoom(k) == k < BufferSize - 1

\* bound: length of the longest line the GPS sends
MaxLine == 130

Fill(n) == [k \in 1..n |-> "x"]

\* the lines, each followed by carriage return and line feed
RECURSIVE Lines(_)
Lines(ls) ==
  IF ls = <<>> THEN <<>> ELSE Head(ls) \o <<CR, LF>> \o Lines(Tail(ls))

\* what the GPS sends in the runs that are explored
GpsStreams ==
  {Lines(<<GGA_Fix, GGA_NoFix>>),
   Lines(<<GGA_NoFixNoTime, GGA_Low, GGA_FixLost>>),
   Lines(<<Fill(MaxLine), GGA_Fix>>),
   Lines(<<GGA_Header \o <<",">> \o Fill(MaxLine - 5), RMC_Moving>>),
   <<LF, CR>> \o GGA_Low}

InitGps ==
  /\ fw \in {"mega", "esp8266"}
  /\ ground = MegaGround
  /\ mpc = "gps"
  /\ clock = SetupMillis
  /\ startedAt = clock
  /\ IF fw = "mega" THEN MegaZero ELSE EspZero
  /\ InitSweep
  /\ lastScan = 0
  /\ parachuteDeployed = FALSE /\ status = "ACTIVE" /\ batteryVoltage = 0
  /\ request = ""
  /\ rx \in GpsStreams
  /\ idx = 0 /\ buffer = <<>> /\ overrun = {}

\* buffer[k] = c, inside the array or not
WriteBuffer(k, c) ==
  /\ buffer' = (IF InBuffer(k) THEN Store(buffer, k, c) ELSE buffer)
  /\ overrun' = (IF InBuffer(k) THEN overrun ELSE overrun \cup {k})

\* one iteration of the while loop of readGPS of the mega
Mega_readChar ==
  /\ fw = "mega"
  /\ rx # <<>>
  /\ LET c == Head(rx) IN
       IF c = LF \/ c = CR
       THEN /\ WriteBuffer(idx, NUL)
            /\ gps' = (IF idx > 6 /\ strncmp(CString(buffer'), GGA_Header, 6)
                       THEN Mega_parseLine(gps, CString(buffer'))
                       ELSE gps)
            /\ idx' = 0
       ELSE IF Mega_bufferRoom(idx)
       THEN /\ WriteBuffer(idx, c)
            /\ idx' = idx + 1
            /\ UNCHANGED gps
       ELSE UNCHANGED <<idx, buffer, overrun, gps>>
  /\ rx' = Tail(rx)
  /\ UNCHANGED <<mpc, clock, startedAt, lastUpdate, lastTerrain, missionTime,
                 accel, roll, pitch, mag, heading, temperature, humidity>>
  /\ UNCHANGED <<lastScan, parachuteDeployed, status, batteryVoltage, request>>
  /\ UNCHANGED sweepVars

\* one iteration of the while loop of readGPS of the ESP8266
Esp_readChar ==
  /\ fw = "esp8266"
  /\ rx # <<>>
  /\ LET c == Head(rx) IN
       IF c = LF \/ c = CR
       THEN IF idx > 0
            THEN /\ WriteBuffer(idx, NUL)
                 /\ gps' = parseGPS(gps, CString(buffer'))
                 /\ idx' = 0
            ELSE UNCHANGED <<idx, buffer, overrun, gps>>
       ELSE IF Esp_bufferRoom(idx)
       THEN /\ WriteBuffer(idx, c)
            /\ idx' = idx + 1
            /\ UNCHANGED gps
       ELSE UNCHANGED <<idx, buffer, overrun, gps>>
  /\ rx' = Tail(rx)
  /\ UNCHANGED <<mpc, clock, startedAt, lastUpdate, lastTerrain, missionTime,
                 accel, roll, pitch, mag, heading, temperature, humidity>>
  /\ UNCHANGED <<lastScan, parachuteDeployed, status, batteryVoltage, request>>
  /\ UNCHANGED sweepVars

NextGps ==
  \/ Mega_readChar
  \/ Esp_readChar

SpecGps == InitGps /\ [][NextGps]_vars

\* the characters of the line received so far
Line == SubSeq(buffer, 1, idx)

\* the next character read ends a line
AtTerminator == rx # <<>> /\ (Head(rx) = CR \/ Head(rx) = LF)

\* a $GPGGA sentence up to its fix-quality field at least, not cut short
\* by the buffer
CompleteGGA(l) ==
  /\ strncmp(l, GGA_Header, 6)
  /\ Len(Split(l)) >= 7
  /\ Len(l) < BufferSize - 1

\* C27: once a complete $GPGGA sentence has been parsed, gpsValid is true
\* exactly when its fix-quality field (the 7th field) is greater than 0,
\* also when time or position fields are empty.
C27_FixDecides ==
  [][(AtTerminator /\ CompleteGGA(Line))
       => gps'.gpsValid = (atoi(Split(Line)[7]) > 0)]_vars

\* C30: the write index of the line buffer stays within 0..127 and nothing
\* is written outside the 128 bytes; a line terminator writes the NUL at the
\* index (the ESP8266 only for a line that is not empty) and leaves the
\* index 0; a character is stored at the index, which goes up by one, while
\* the index is below 127, and is dropped otherwise.
C30_IndexInBuffer ==
  /\ [](idx >= 0 /\ idx <= BufferSize - 1 /\ overrun = {}
        /\ Len(buffer) <= BufferSize)
  /\ [][rx # <<>> =>
          IF AtTerminator
          THEN /\ idx' = 0
               /\ (fw = "mega" \/ idx > 0) => buffer'[idx + 1] = NUL
          ELSE IF idx < BufferSize - 1
          THEN idx' = idx + 1 /\ buffer'[idx + 1] = Head(rx)
          ELSE UNCHANGED <<idx, buffer>>]_vars

\* a line longer than the buffer has been ended: the NUL is in the last
\* byte and the index is back at 0
C30_Witness ==
  /\ idx = 0
  /\ Len(buffer) = BufferSize
  /\ buffer[BufferSize] = NUL
  /\ buffer[BufferSize - 1] = "x"
  /\ overrun = {}

----------------------------------------------------------------------------
(* loop() of the ESP8266, statement by statement, with the parachute *)

\* TELEMETRY_INTERVAL of the ESP8266 firmware
Esp_TELEMETRY_INTERVAL == 100

\* the altitude below which checkAutoDeployment deploys
AutoDeployBelow == F32FromInt(50)

\* deployParachute flashes the LED with ten delay(100)
DeployFlashMillis == 10 * 100

\* bounds of the runs of the ESP8266 that are explored
\* milliseconds after its start at which a run enters loop() no more
EspHorizon == 1300

\* milliseconds from the end of one pass of loop() to the start of the next
EspLoopGaps == {60}

\* analogRead(BATTERY_PIN), and raw * (4.2 / 1024.0) as a float
EspRawBattery == {512}

\* raw counts of the MPU6050 and of the QMC5883L, and the DHT reading, in
\* the runs of the ESP8266
EspRawAccel == {<<0, 0, 16384>>}

EspRawMag == {<<1, 0, -1000>>}

EspDhtSamples == {[t |-> F32FromInt(24), h |-> F32FromInt(60)]}

Esp_Voltage(raw) == CASE raw = 0 -> 0 [] raw = 512 -> 1074161254

\* lines the GPS has completed when readGPS is called
EspLines ==
  {GGA_Fix, GGA_Low, GGA_FixLost, GGA_NoFix, RMC_Moving,
   <<"$", "G", "P", "G", "G", "A", ",", "1", "2", "3", "5", "2", "3", ",",
     "2", "8", "3", "0", ".", "0", "0", ",", "N", ",", "0", "7", "7", "1",
     "5", ".", "0", "0", ",", "E", ",", "1", ",", "0", "8", ",", "0", ".",
     "9", ",", "5", "0", ".", "0", ",", "M">>}

\* what a browser asks of the web server
Requests == {"/", "/data", "/deploy", "/reset"}

\* the ESP8266 enters loop() for the first time: setup() has ended with
\* telemetry.status = "ACTIVE"
InitEspBoot ==
  /\ fw = "esp8266"
  /\ ground = MegaGround
  /\ mpc = "top"
  /\ clock = SetupMillis
  /\ startedAt = clock
  /\ EspZero
  /\ InitSweep
  /\ lastScan = 0
  /\ parachuteDeployed = FALSE /\ status = "ACTIVE" /\ batteryVoltage = 0
  /\ request = ""
  /\ rx = <<>> /\ idx = 0 /\ buffer = <<>> /\ overrun = {}

\* the ESP8266 late in a long run, WrapLead ms before millis() passes 2^32;
\* the last line parsed was GGA_Fix: 28.5 N, 77.25 E, 545.0 m, 8 satellites
InitEspLate ==
  /\ fw = "esp8266"
  /\ ground = MegaGround
  /\ mpc = "top"
  /\ clock = -WrapLead
  /\ startedAt = clock
  /\ lastUpdate = USub(clock, 60)
  /\ lastTerrain = 0
  /\ missionTime = USub(clock, 60)
  /\ accel = <<0, 0, One>>
  /\ roll = Roll(0, 0, One) /\ pitch = Pitch(0, 0, One)
  /\ mag = <<F32FromInt(1), 0, F32FromInt(-1000)>>
  /\ heading = Esp_Heading(1, 0)
  /\ temperature = F32FromInt(24) /\ humidity = F32FromInt(60)
  /\ gps = [latitude |-> 1105461248, longitude |-> 1117421568,
            gpsAltitude |-> 1141391360, gpsSpeed |-> 0, gpsSatellites |-> 8,
            gpsValid |-> TRUE]
  /\ InitSweep
  /\ lastScan = 0
  /\ parachuteDeployed = FALSE /\ status = "ACTIVE"
  /\ batteryVoltage = Esp_Voltage(512)
  /\ request = "/data"
  /\ rx = <<>> /\ idx = 0
  /\ buffer = Store(GGA_Fix, Len(GGA_Fix), NUL)
  /\ overrun = {}

\* slip: the altitude test does not ask for a valid fix
AutoDeployDue_ignoresFix ==
  /\ gps.gpsAltitude > 0
  /\ gps.gpsAltitude < AutoDeployBelow
  /\ ~parachuteDeployed

\* the test of checkAutoDeployment
AutoDeployDue ==
  /\ gps.gpsValid
  /\ gps.gpsAltitude > 0
  /\ gps.gpsAltitude < AutoDeployBelow
  /\ ~parachuteDeployed

\* slip: a second trigger closes the release again
deployParachute_toggles ==
  IF ~parachuteDeployed
  THEN /\ parachuteDeployed' = TRUE
       /\ status' = "PARACHUTE DEPLOYED"
       /\ clock' = UAdd(clock, DeployFlashMillis)
  ELSE /\ parachuteDeployed' = FALSE
       /\ status' = "ACTIVE"
       /\ UNCHANGED clock

\* deployParachute
deployParachute ==
  IF ~parachuteDeployed
  THEN /\ parachuteDeployed' = TRUE
       /\ status' = "PARACHUTE DEPLOYED"
       /\ clock' = UAdd(clock, DeployFlashMillis)
  ELSE UNCHANGED <<parachuteDeployed, status, clock>>

\* slip: the status string is left as it was
handleReset_keepsStatus ==
  /\ parachuteDeployed' = FALSE
  /\ UNCHANGED <<status, clock>>

\* handleReset
handleReset ==
  /\ parachuteDeployed' = FALSE
  /\ status' = "READY"
  /\ UNCHANGED clock

\* the interval test of loop() of the ESP8266
Esp_SensorsDue == UGeq(USub(clock, lastUpdate), Esp_TELEMETRY_INTERVAL)

\* telemetry.missionTime = millis()
Esp_missionTime ==
  /\ fw = "esp8266"
  /\ mpc = "top"
  /\ UGeq(EspHorizon - 1, USub(clock, startedAt))
  /\ missionTime' = clock
  /\ mpc' = "sensors"
  /\ UNCHANGED <<clock, startedAt, lastUpdate, lastTerrain, accel, roll, pitch,
                 mag, heading, temperature, humidity, gps>>
  /\ UNCHANGED sweepVars
  /\ UNCHANGED otherVars

\* the telemetry interval has elapsed: lastUpdate = millis()
Esp_startSensors ==
  /\ fw = "esp8266"
  /\ mpc = "sensors"
  /\ Esp_SensorsDue
  /\ lastUpdate' = clock
  /\ mpc' = "read"
  /\ UNCHANGED <<clock, startedAt, lastTerrain, missionTime, accel, roll, pitch,
                 mag, heading, temperature, humidity, gps>>
  /\ UNCHANGED sweepVars
  /\ UNCHANGED otherVars

Esp_skipSensors ==
  /\ fw = "esp8266"
  /\ mpc = "sensors"
  /\ ~Esp_SensorsDue
  /\ mpc' = "client"
  /\ UNCHANGED <<clock, startedAt, lastUpdate, lastTerrain, missionTime, accel,
                 roll, pitch, mag, heading, temperature, humidity, gps>>
  /\ UNCHANGED sweepVars
  /\ UNCHANGED otherVars

\* readMPU6050, readQMC5883L, readTemperature, readHumidity and
\* readBatteryVoltage. The angles are evaluated in double and stored in
\* floats; with one axis at 1 g they are the values Roll and Pitch give.
Esp_readSensors ==
  /\ fw = "esp8266"
  /\ mpc = "read"
  /\ \E raw \in EspRawAccel :
       LET ax == F32Div(F32FromInt(raw[1]), AccelLsbPerG)
           ay == F32Div(F32FromInt(raw[2]), AccelLsbPerG)
           az == F32Div(F32FromInt(raw[3]), AccelLsbPerG)
       IN /\ accel' = <<ax, ay, az>>
          /\ roll' = Roll(ax, ay, az)
          /\ pitch' = Pitch(ax, ay, az)
  /\ \/ UNCHANGED <<mag, heading>>
     \/ \E raw \in EspRawMag :
          /\ mag' = <<F32FromInt(raw[1]), F32FromInt(raw[2]),
                      F32FromInt(raw[3])>>
          /\ heading' = Esp_Heading(raw[1], raw[2])
  /\ \E d \in EspDhtSamples :
       /\ temperature' = (IF isnan(d.t) THEN temperature ELSE d.t)
       /\ humidity' = (IF isnan(d.h) THEN humidity ELSE d.h)
  /\ \E raw \in EspRawBattery : batteryVoltage' = Esp_Voltage(raw)
  /\ mpc' = "gps"
  /\ UNCHANGED <<clock, startedAt, lastUpdate, lastTerrain, missionTime, gps>>
  /\ UNCHANGED <<lastScan, parachuteDeployed, status, request, rx, idx, buffer,
                 overrun>>
  /\ UNCHANGED sweepVars

\* readGPS: the bytes received since the last call end a line, or do not
Esp_readGPS ==
  /\ fw = "esp8266"
  /\ mpc = "gps"
  /\ \/ UNCHANGED <<gps, buffer>>
     \/ \E line \in EspLines :
          /\ buffer' = Store(line, Len(line), NUL)
          /\ gps' = parseGPS(gps, CString(buffer'))
  /\ mpc' = "auto"
  /\ UNCHANGED <<clock, startedAt, lastUpdate, lastTerrain, missionTime, accel,
                 roll, pitch, mag, heading, temperature, humidity>>
  /\ UNCHANGED <<lastScan, parachuteDeployed, status, batteryVoltage, request,
                 rx, idx, overrun>>
  /\ UNCHANGED sweepVars

\* checkAutoDeployment
Esp_checkAutoDeployment ==
  /\ fw = "esp8266"
  /\ mpc = "auto"
  /\ IF AutoDeployDue THEN deployParachute
     ELSE UNCHANGED <<parachuteDeployed, status, clock>>
  /\ mpc' = "print"
  /\ UNCHANGED <<startedAt, lastUpdate, lastTerrain, missionTime, accel, roll,
                 pitch, mag, heading, temperature, humidity, gps>>
  /\ UNCHANGED <<lastScan, batteryVoltage, request, rx, idx, buffer, overrun>>
  /\ UNCHANGED sweepVars

\* the heartbeat LED and the serial telemetry line: output only
Esp_printTelemetry ==
  /\ fw = "esp8266"
  /\ mpc = "print"
  /\ mpc' = "client"
  /\ UNCHANGED <<clock, startedAt, lastUpdate, lastTerrain, missionTime, accel,
                 roll, pitch, mag, heading, temperature, humidity, gps>>
  /\ UNCHANGED sweepVars
  /\ UNCHANGED otherVars

\* server.handleClient(): no request is pending, or one is dispatched to
\* handleRoot, handleData, handleDeploy or handleReset; request is the path
\* this call has dispatched, empty when there was none
Esp_handleClient ==
  /\ fw = "esp8266"
  /\ mpc = "client"
  /\ \/ /\ request' = ""
        /\ UNCHANGED <<parachuteDeployed, status, clock>>
     \/ \E r \in Requests :
          /\ request' = r
          /\ CASE r = "/deploy" -> deployParachute
               [] r = "/reset"  -> handleReset
               [] OTHER         -> UNCHANGED <<parachuteDeployed, status, clock>>
  /\ mpc' = "end"
  /\ UNCHANGED <<startedAt, lastUpdate, lastTerrain, missionTime, accel, roll,
                 pitch, mag, heading, temperature, humidity, gps>>
  /\ UNCHANGED <<lastScan, batteryVoltage, rx, idx, buffer, overrun>>
  /\ UNCHANGED sweepVars

\* loop() returns and is called again
Esp_loopAgain ==
  /\ fw = "esp8266"
  /\ mpc = "end"
  /\ \E gap \in EspLoopGaps : clock' = UAdd(clock, gap)
  /\ mpc' = "top"
  /\ UNCHANGED <<startedAt, lastUpdate, lastTerrain, missionTime, accel, roll,
                 pitch, mag, heading, temperature, humidity, gps>>
  /\ UNCHANGED sweepVars
  /\ UNCHANGED otherVars

InitEsp == InitEspBoot \/ InitEspLate

NextEsp ==
  \/ Esp_missionTime
  \/ Esp_startSensors
  \/ Esp_skipSensors
  \/ Esp_readSensors
  \/ Esp_readGPS
  \/ Esp_checkAutoDeployment
  \/ Esp_printTelemetry
  \/ Esp_handleClient
  \/ Esp_loopAgain

SpecEsp == InitEsp /\ [][NextEsp]_vars

----------------------------------------------------------------------------
(* the parachute of the ESP8266 *)

\* handleDeploy is running: handleClient dispatches /deploy in this step
ManualDeploy == mpc = "client" /\ request' = "/deploy"

\* handleReset is running: handleClient dispatches /reset in this step
ManualReset == mpc = "client" /\ request' = "/reset"

\* checkAutoDeployment is running in this step
AutoCheck == mpc = "auto" /\ mpc' = "print"

\* C22: the parachute-deployed flag of the ESP8266 goes from false to true
\* only in a step that handles a /deploy request or in a step of the
\* automatic altitude check, and in that check only with a valid fix and a GPS
\* altitude strictly between 0 and 50; with an invalid fix the only step that
\* sets the flag is the handling of /deploy.
C22_DeployCauses ==
  /\ [][(fw = "esp8266" /\ ~parachuteDeployed /\ parachuteDeployed') =>
          \/ ManualDeploy
          \/ /\ AutoCheck
             /\ gps.gpsValid
             /\ gps.gpsAltitude > 0
             /\ gps.gpsAltitude < AutoDeployBelow]_vars
  /\ [][(fw = "esp8266" /\ ~gps.gpsValid /\ ~parachuteDeployed
           /\ parachuteDeployed') => ManualDeploy]_vars

\* the automatic check has deployed the parachute: the pass before has
\* dispatched no request, and the fix is valid and below 50 m
C22_Witness ==
  /\ fw = "esp8266"
  /\ mpc = "print"
  /\ parachuteDeployed
  /\ request = ""
  /\ gps.gpsValid
  /\ gps.gpsAltitude > 0
  /\ gps.gpsAltitude < AutoDeployBelow

\* C25: once parachuteDeployed is true on the ESP8266 it stays true, and the
\* status string stays as it is, in every step but the handling of a /reset
\* request; a /deploy request and the automatic check change neither while
\* the flag is true.
C25_DeployedUntilReset ==
  /\ [][(fw = "esp8266" /\ parachuteDeployed) =>
          \/ ManualReset
          \/ parachuteDeployed' /\ status' = status]_vars
  /\ [][(fw = "esp8266" /\ parachuteDeployed /\ (ManualDeploy \/ AutoCheck)) =>
          (parachuteDeployed' /\ status' = status)]_vars

\* the parachute was deployed by /deploy in the pass before, and in this pass
\* the automatic check has run with a valid fix below 50 m
C25_Witness ==
  /\ fw = "esp8266"
  /\ mpc = "print"
  /\ parachuteDeployed
  /\ status = "PARACHUTE DEPLOYED"
  /\ request = "/deploy"
  /\ gps.gpsValid
  /\ gps.gpsAltitude > 0
  /\ gps.gpsAltitude < AutoDeployBelow

\* C26: in every state of the ESP8266 after setup, parachuteDeployed is true
\* exactly when telemetry.status is "PARACHUTE DEPLOYED", and the status is
\* otherwise "ACTIVE" or "READY".
C26_FlagMatchesStatus ==
  fw = "esp8266" =>
    /\ parachuteDeployed <=> status = "PARACHUTE DEPLOYED"
    /\ status \in {"ACTIVE", "READY", "PARACHUTE DEPLOYED"}

\* the pass before has handled /reset, and the automatic check of this pass
\* has deployed the parachute again
C26_Witness ==
  /\ fw = "esp8266"
  /\ mpc = "print"
  /\ request = "/reset"
  /\ parachuteDeployed
  /\ status = "PARACHUTE DEPLOYED"

----------------------------------------------------------------------------
(* loop() of the scanner with its clock, and the three sketches late in a *)
(* long run, when millis() passes from 2^32 - 1 to 0                      *)

\* SCAN_INTERVAL of the scanner
SCAN_INTERVAL == 500

\* milliseconds from the end of one pass of loop() of the scanner to the
\* start of the next: a pass that does not scan ends within the millisecond
\* or in the next one
ScannerLoopGaps == {0, 1}

\* the scanner late in a long run, WrapLead ms before millis() passes 2^32:
\* the latest sweep, 400 ms ago, timed out on every channel
InitScannerLate ==
  /\ fw = "scanner"
  /\ ground = MegaGround
  /\ mpc = "top"
  /\ clock = -WrapLead
  /\ startedAt = clock
  /\ MegaZero
  /\ lastScan = USub(clock, 400)
  /\ pc = "loop"
  /\ i = ScannerNumSensors
  /\ sum = 0 /\ sumSq = 0 /\ validCount = 0
  /\ minDist = MinDistStart /\ maxDist = 0
  /\ terrain = [k \in 0..(ScannerNumSensors - 1) |-> Sentinel]
  /\ terrainMin = 0 /\ terrainMax = 0 /\ terrainVariance = 0
  /\ terrainStatus = "NO_GROUND"
  /\ scanCount = 8000000
  /\ now = ScannerNumSensors * BodyEndTime(0, 0)
  /\ trigAt = TriggerTime((ScannerNumSensors - 1) * BodyEndTime(0, 0))
  /\ echoEndAt = EchoEndTime((ScannerNumSensors - 1) * BodyEndTime(0, 0), 0)
  /\ pulses = [k \in 1..ScannerNumSensors |->
                 [pin |-> Scanner_echoPins[k], duration |-> 0]]
  /\ parachuteDeployed = FALSE /\ status = "" /\ batteryVoltage = 0
  /\ request = ""
  /\ rx = <<>> /\ idx = 0 /\ buffer = <<>> /\ overrun = {}

\* slip: the test compares millis() with the deadline lastScan + SCAN_INTERVAL
ScanDue_deadline == ~ULess(clock, UAdd(lastScan, SCAN_INTERVAL))

\* the interval test of loop() of the scanner
ScanDue == UGeq(USub(clock, lastScan), SCAN_INTERVAL)

\* the scan interval has elapsed: lastScan = millis(), scanCount++, and
\* readTerrainArray is entered
Scanner_startScan ==
  /\ fw = "scanner"
  /\ mpc = "top"
  /\ pc = "loop"
  /\ UGeq(Horizon - 1, USub(clock, startedAt))
  /\ ScanDue
  /\ lastScan' = clock
  /\ scanCount' = scanCount + 1
  /\ EnterReadTerrainArray
  /\ mpc' = "terrain"
  /\ UNCHANGED <<clock, startedAt, lastUpdate, lastTerrain, missionTime, accel,
                 roll, pitch, mag, heading, temperature, humidity, gps>>
  /\ UNCHANGED <<parachuteDeployed, status, batteryVoltage, request, rx, idx,
                 buffer, overrun>>

\* the scan interval has not elapsed: loop() returns
Scanner_skipScan ==
  /\ fw = "scanner"
  /\ mpc = "top"
  /\ pc = "loop"
  /\ UGeq(Horizon - 1, USub(clock, startedAt))
  /\ ~ScanDue
  /\ mpc' = "end"
  /\ UNCHANGED <<clock, startedAt, lastUpdate, lastTerrain, missionTime, accel,
                 roll, pitch, mag, heading, temperature, humidity, gps>>
  /\ UNCHANGED sweepVars
  /\ UNCHANGED otherVars

\* printTerrainJSON, printHumanReadable and the LED after readTerrainArray
\* has returned: millis() has gone on by the time the sweep took
Scanner_printTerrainJSON ==
  /\ fw = "scanner"
  /\ mpc = "terrain"
  /\ pc = "print"
  /\ pc' = "loop"
  /\ clock' = UAdd(clock, now \div 1000)
  /\ mpc' = "end"
  /\ UNCHANGED <<fw, ground, i, sum, sumSq, validCount, minDist, maxDist,
                 terrain, terrainMin, terrainMax, terrainVariance,
                 terrainStatus, scanCount, now, trigAt, echoEndAt, pulses>>
  /\ UNCHANGED <<startedAt, lastUpdate, lastTerrain, missionTime, accel, roll,
                 pitch, mag, heading, temperature, humidity, gps>>
  /\ UNCHANGED otherVars

\* loop() of the scanner returns and is called again
Scanner_loopAgain ==
  /\ fw = "scanner"
  /\ mpc = "end"
  /\ \E gap \in ScannerLoopGaps : clock' = UAdd(clock, gap)
  /\ mpc' = "top"
  /\ UNCHANGED <<startedAt, lastUpdate, lastTerrain, missionTime, accel, roll,
                 pitch, mag, heading, temperature, humidity, gps>>
  /\ UNCHANGED sweepVars
  /\ UNCHANGED otherVars

InitWrap == InitScannerLate \/ InitMegaLate \/ InitEspLate

NextWrap ==
  \/ Scanner_startScan
  \/ Scanner_finishSweep
  \/ Scanner_printTerrainJSON
  \/ Scanner_skipScan
  \/ Scanner_loopAgain
  \/ NextMega
  \/ NextEsp

SpecWrap == InitWrap /\ [][NextWrap]_vars

\* C28: in the three sketches, in runs that pass the wrap of millis() from
\* 2^32 - 1 to 0, the start of an activity is never later than millis(), and
\* every interval test starts its activity exactly when the milliseconds
\* elapsed since the latest start are at least the interval: never earlier,
\* and at the first test from then on.
C28_IntervalAcrossWrap ==
  /\ [](fw = "scanner" => lastScan <= clock)
  /\ [](fw = "mega" => (lastTerrain <= clock /\ lastUpdate <= clock))
  /\ [](fw = "esp8266" => lastUpdate <= clock)
  /\ [][(fw = "scanner" /\ mpc = "top" /\ mpc' # "top") =>
          /\ (pc' = "sweep") <=> (clock - lastScan >= SCAN_INTERVAL)
          /\ pc' = "sweep" => lastScan' = clock]_vars
  /\ [][(fw = "mega" /\ mpc = "terrain" /\ pc = "loop") =>
          /\ (pc' = "sweep") <=> (clock - lastTerrain >= TERRAIN_INTERVAL)
          /\ pc' = "sweep" => lastTerrain' = clock]_vars
  /\ [][(fw = "mega" /\ mpc = "sensors" /\ mpc' # "sensors") =>
          /\ (mpc' = "mpu") <=> (clock - lastUpdate >= TELEMETRY_INTERVAL)
          /\ mpc' = "mpu" => lastUpdate' = clock]_vars
  /\ [][(fw = "esp8266" /\ mpc = "sensors" /\ mpc' # "sensors") =>
          /\ (mpc' = "read") <=> (clock - lastUpdate >= Esp_TELEMETRY_INTERVAL)
          /\ mpc' = "read" => lastUpdate' = clock]_vars

\* the scanner has started a sweep within SCAN_INTERVAL after the wrap: the
\* sweep before it started before the wrap
C28_Witness ==
  /\ fw = "scanner"
  /\ pc = "sweep"
  /\ lastScan >= 0
  /\ lastScan < SCAN_INTERVAL
  /\ startedAt < 0

----------------------------------------------------------------------------
(* loop() of the mega run for ever. Its interval tests read the clock     *)
(* only in the differences millis() - lastTerrain and millis() -          *)
(* lastUpdate, so every return of loop() moves the origin of time to the  *)
(* start of the next pass, and an elapsed time beyond ElapsedCap, which   *)
(* is above both intervals, is held as ElapsedCap.                        *)

\* milliseconds above which an elapsed time is no longer told apart
ElapsedCap == 2000

\* milliseconds from the end of one pass of loop() to the start of the next
LiveLoopGaps == {250, 500}

\* a time t of the pass that ends, as it reads when the next pass starts at
\* the new origin 0
Rebase(t, nextStart) ==
  IF USub(t, nextStart) < -ElapsedCap THEN -ElapsedCap ELSE USub(t, nextStart)

\* loop() returns and is called again, for ever
Mega_loopForever ==
  /\ fw = "mega"
  /\ mpc = "end"
  /\ \E gap \in LiveLoopGaps :
       LET nextStart == UAdd(clock, gap)
       IN /\ clock' = 0
          /\ startedAt' = 0
          /\ lastTerrain' = Rebase(lastTerrain, nextStart)
          /\ lastUpdate' = Rebase(lastUpdate, nextStart)
          /\ missionTime' = Rebase(missionTime, nextStart)
  /\ mpc' = "top"
  /\ UNCHANGED <<accel, roll, pitch, mag, heading, temperature, humidity, gps>>
  /\ UNCHANGED sweepVars
  /\ UNCHANGED otherVars

NextLive ==
  \/ Mega_missionTime
  \/ Mega_readGPS
  \/ Mega_startSweep
  \/ ReadChannel
  \/ Mega_finishSweep
  \/ Mega_printTerrainJSON
  \/ Mega_skipSweep
  \/ Mega_startSensors
  \/ Mega_skipSensors
  \/ Mega_readMPU6050
  \/ Mega_readQMC5883L
  \/ Mega_readDHT
  \/ Mega_printTelemetry
  \/ Mega_loopForever

\* the position in loop() and in the for loop of readTerrainArray
position == <<mpc, pc, i>>

\* statements of loop() of the mega
MegaStatements ==
  {"top", "gps", "terrain", "sensors", "mpu", "qmc", "dht", "telemetry", "end"}

\* the position changes: a statement has ended
Advance ==
  \E m \in MegaStatements, p \in {"loop", "sweep", "print"},
     k \in 0..MegaNumSensors :
       mpc' = m /\ pc' = p /\ i' = k

\* every step of NextLive ends a statement
EveryStepAdvances == [][position' # position]_vars

\* loop() is called again whenever it returns and every statement ends
\* (pulseIn returns after its timeout at the latest): the position keeps
\* changing
SpecLive == InitMegaBoot /\ [][NextLive]_vars /\ WF_position(Advance)

\* readTerrainArray has just been entered
SweepStarts == fw = "mega" /\ pc = "sweep" /\ i = 0

\* the sensor cycle has just been entered
SensorCycleStarts == fw = "mega" /\ mpc = "mpu"

\* C29: while loop() of the mega keeps being called and millis() keeps
\* advancing, a terrain sweep starts infinitely often and a sensor cycle
\* starts infinitely often.
C29_BothForever == ([]<>SweepStarts) /\ ([]<>SensorCycleStarts)

\* a sensor cycle starts in a later pass right after a sweep has blocked that
\* pass
C29_Witness ==
  /\ SensorCycleStarts
  /\ startedAt = 0
  /\ lastUpdate = clock
  /\ now > 0
  /\ USub(clock, lastTerrain) = now \div 1000
====
